---- MODULE Spec2Model ----
(***************************************************************************)
(* The attendance-marking decision engine of the attendance server         *)
(* (src/App.js, server part from line 4744): the two handlers              *)
(*   POST /api/student/attendance-image   (Face++ token, remote compare)   *)
(*   POST /api/student/attendance         (stored embedding, local cosine) *)
(* with the Attendance collection and its unique index, the Notification   *)
(* collection, and the wall clock the handlers read.                       *)
(*                                                                         *)
(* A handler is an async function: it runs without interruption between    *)
(* two awaits, and other requests run while it waits.  Each action below   *)
(* is the result of one await together with the synchronous code that      *)
(* follows it up to the next await or the response.                        *)
(*                                                                         *)
(* Units.  Time is in seconds of server-local time, counted from local     *)
(* midnight of day 0.  A similarity is in thousandths, rounded down, so    *)
(* that the comparison with the threshold 0.85 (850) is exact.             *)
(***************************************************************************)
EXTENDS Integers, Sequences, FiniteSets, TLC

VARIABLES now, tzOffset, call, users, courses, ledger, notifications, req

vars == <<now, tzOffset, call, users, courses, ledger, notifications, req>>

(***************************************************************************)
(* Bounds of the model                                                     *)
(***************************************************************************)
\* number of attendance requests that can be in flight or finished
MaxReqs == 2

\* length of the arrays given to computeCosineSimilarity when it is taken on
\* its own
MaxLen == 2

Reqs == 1..MaxReqs

(***************************************************************************)
(* Program constants                                                       *)
(***************************************************************************)
\* const SIMILARITY_THRESHOLD = 0.85 in the image handler, in thousandths
IMG_SIMILARITY_THRESHOLD == 850
\* const SIMILARITY_THRESHOLD = 0.85 in the embedding handler, in thousandths
SIMILARITY_THRESHOLD == 850
\* classStartTime.setHours(9, 0, 0, 0)
CLASS_START_HOUR == 9
\* if (diffMinutes > 15)
GRACE_MINUTES == 15
\* encodings.length < 64 is refused at registration
MIN_ENCODINGS == 64
\* confidenceScore: { min: 0, max: 1 }, in thousandths
CONFIDENCE_MIN == 0
CONFIDENCE_MAX == 1000

SecondsPerMinute == 1 * 60
SecondsPerDay == 24 * 60 * 60

(***************************************************************************)
(* Numbers.  A JavaScript number is a finite value, NaN, Infinity or       *)
(* -Infinity; the finite values of the model are integers, in the unit of  *)
(* their use (a component of an embedding, a similarity in thousandths).   *)
(***************************************************************************)
Num(n) == [k |-> "num", v |-> n]
NaN == [k |-> "nan", v |-> 0]
Infinity == [k |-> "inf", v |-> 1]
NegInfinity == [k |-> "inf", v |-> -1]

\* the sign of a number that is not NaN and not 0
Sign(x) == IF x.v > 0 THEN 1 ELSE -1

IsZero(x) == x.k = "num" /\ x.v = 0

\* x + y
Add(x, y) ==
    IF x.k = "nan" \/ y.k = "nan" THEN NaN
    ELSE IF x.k = "inf" /\ y.k = "inf" THEN (IF x.v = y.v THEN x ELSE NaN)
    ELSE IF x.k = "inf" THEN x
    ELSE IF y.k = "inf" THEN y
    ELSE Num(x.v + y.v)

\* x * y
Mul(x, y) ==
    IF x.k = "nan" \/ y.k = "nan" THEN NaN
    ELSE IF x.k = "inf" \/ y.k = "inf"
         THEN (IF IsZero(x) \/ IsZero(y) THEN NaN
               ELSE [k |-> "inf", v |-> Sign(x) * Sign(y)])
    ELSE Num(x.v * y.v)

\* x < y: false when either is NaN
Less(x, y) ==
    /\ x.k # "nan" /\ y.k # "nan"
    /\ IF x.k = "inf" THEN x.v < 0 /\ x # y
       ELSE IF y.k = "inf" THEN y.v > 0
       ELSE x.v < y.v

\* Number.isNaN(x)
IsNaN(x) == x.k = "nan"

(***************************************************************************)
(* The data of the model                                                   *)
(***************************************************************************)
Students == {"S1", "S2"}

\* course codes as the request body may carry them; "" is a missing code
BodyCourseCodes == {"", "ict651", "ICT651", "ICT652"}

\* a handler that uses the course code as the body carries it
KeepCase(s) == s

\* String.prototype.toUpperCase on the codes of the model
ToUpperCase(s) == IF s = "ict651" THEN "ICT651" ELSE s

Null == [null |-> TRUE]

\* a registered embedding has at least MIN_ENCODINGS components
Pad(v) == [j \in 1..MIN_ENCODINGS |-> IF j <= Len(v) THEN Num(v[j]) ELSE Num(0)]

\* The arrays of numbers of the model.  The state holds an array by its name:
\* "empty" is [], "ref" the embedding a student has registered, and the
\* captured embeddings are "same" (cosine 1 against "ref"), "at085" (exactly
\* 0.85), "below" (0.835..), "short" (of another length) and "huge" (with a
\* component 1e999, which JSON.parse reads as Infinity).
Array(name) ==
    CASE name = "empty" -> <<>>
      [] name = "ref" -> Pad(<<1, 0, 0, 0, 0>>)
      [] name = "same" -> Pad(<<1, 0, 0, 0, 0>>)
      [] name = "at085" -> Pad(<<17, 9, 5, 2, 1>>)
      [] name = "below" -> Pad(<<16, 9, 5, 2, 1>>)
      [] name = "short" -> <<Num(1), Num(0), Num(0), Num(0), Num(0)>>
      [] name = "huge" -> [Pad(<<1, 0, 0, 0, 0>>) EXCEPT ![1] = Infinity]


\* the confidence values (0..100, in thousandths of a point) Face++ may answer
FaceppConfidences == {0, 84999, 85000, 100000}

\* the ways the call to Face++ can fail
FaceppFailures == {"no_face", "malformed", "unreachable", "timeout"}

\* the error faceppCompare throws then: axios.post rejects (an error status,
\* no connection, the 15 s timeout), or the answer has no numeric confidence
FaceppError(failure) ==
    IF failure = "malformed" THEN "Invalid compare response" ELSE "axios"

\* the instants at which the clock is read, in seconds of local time
Instants ==
    { 9 * 3600,                      \* 09:00:00
      9 * 3600 + 15 * 60,            \* 09:15:00
      9 * 3600 + 15 * 60 + 30,       \* 09:15:30
      9 * 3600 + 16 * 60,            \* 09:16:00
      SecondsPerDay + 7 * 3600 + 30 * 60,    \* 07:30:00 of the next day
      SecondsPerDay + 9 * 3600 + 20 * 60 }   \* 09:20:00 of the next day

\* the first of them
FirstInstant == CHOOSE t \in Instants : \A u \in Instants : t <= u

\* offsets of server-local time from UTC, in seconds
TzOffsets == {0}

\* the offset of a server whose local time is eight hours ahead of UTC
TzOffsetsAhead == {8 * 3600}

(***************************************************************************)
(* Error messages of the two handlers                                      *)
(***************************************************************************)
MsgCourseRequired == "Course code is required"
MsgImageRequired == "imageBase64 is required"
MsgStudentNotFound == "Student not found"
MsgNotEnrolled == "You are not enrolled in this course"
MsgCourseNotFound == "Course not found"
MsgAlreadyMarked == "Attendance already marked for today in this course"
MsgNoFace == "No registered face found. Please register your face first."
MsgNoEncodings == "No registered face encodings found. Please register your face first."
MsgInvalidFaceData == "Invalid or missing face data for verification"
MsgVerificationFailed == "Face verification failed. Please try again."
MsgAlreadyMarkedOnSave == "Attendance already marked for today"
MsgFailed == "Failed to mark attendance. Please try again."

\* res.status(code).json({ success: false, error })
ErrorResponse(code, msg) == [status |-> code, success |-> FALSE, error |-> msg, attendanceId |-> 0]

\* res.json({ success: true, data: { attendanceId: savedAttendance._id, ... } })
SuccessResponse(id) == [status |-> 200, success |-> TRUE, error |-> "", attendanceId |-> id]

(***************************************************************************)
(* The clock.  now is the instant of the last read; new Date() reads an    *)
(* instant that is not earlier.                                            *)
(***************************************************************************)
\* new Date() gives t
ReadClock(t) == t \in Instants /\ t >= now /\ now' = t

\* new Date().toISOString().split('T')[0]: the calendar date in UTC, as a day number
IsoDate(t) == (t - tzOffset) \div SecondsPerDay

\* classStartTime = new Date(); classStartTime.setHours(9, 0, 0, 0): 09:00 of the local day of t
ClassStartTime(t) == (t \div SecondsPerDay) * SecondsPerDay + CLASS_START_HOUR * 3600

\* a classification that compares the elapsed time itself with the grace
\* period instead of the whole minutes elapsed
ClassifyUnrounded(currentTime) ==
    LET classStartTime == ClassStartTime(currentTime)
        diffMinutes == (currentTime - classStartTime) \div SecondsPerMinute
    IN  IF currentTime - classStartTime > GRACE_MINUTES * SecondsPerMinute
        THEN [status |-> "late", isLate |-> TRUE, lateMinutes |-> diffMinutes]
        ELSE [status |-> "present", isLate |-> FALSE, lateMinutes |-> 0]

\* a classification that sets isLate and lateMinutes and leaves the status
ClassifyWithoutStatus(currentTime) ==
    LET classStartTime == ClassStartTime(currentTime)
        diffMinutes == (currentTime - classStartTime) \div SecondsPerMinute
    IN  IF currentTime > classStartTime /\ diffMinutes > GRACE_MINUTES
        THEN [status |-> "present", isLate |-> TRUE, lateMinutes |-> diffMinutes]
        ELSE [status |-> "present", isLate |-> FALSE, lateMinutes |-> 0]

\* the lateness classification of both handlers
Classify(currentTime) ==
    LET classStartTime == ClassStartTime(currentTime)
        diffMinutes == (currentTime - classStartTime) \div SecondsPerMinute
    IN  IF currentTime > classStartTime /\ diffMinutes > GRACE_MINUTES
        THEN [status |-> "late", isLate |-> TRUE, lateMinutes |-> diffMinutes]
        ELSE [status |-> "present", isLate |-> FALSE, lateMinutes |-> 0]

(***************************************************************************)
(* The Similarity Oracle, local strategy                                   *)
(***************************************************************************)
RECURSIVE DotProduct(_, _, _, _)
\* the accumulation loop of computeCosineSimilarity from component j on, with
\* the sum so far; a sum that is NaN stays NaN
DotProduct(a, b, j, sum) ==
    IF j > Len(a) THEN sum
    ELSE LET next == Add(sum, Mul(a[j], b[j]))
         IN  IF IsNaN(next) THEN NaN ELSE DotProduct(a, b, j + 1, next)

\* dot / (Math.sqrt(normA) * Math.sqrt(normB)) in thousandths, rounded down
CosineThousandths(dot, normA, normB) ==
    LET p == normA * normB
        d == 1000000 * dot * dot
        k == CHOOSE x \in 0..1000 : x * x * p <= d /\ (x + 1) * (x + 1) * p > d
    IN  IF dot >= 0 THEN k
        ELSE IF k * k * p = d THEN 0 - k ELSE 0 - (k + 1)

\* dot / (Math.sqrt(normA) * Math.sqrt(normB)) for norms that are not 0 and
\* not NaN: the square root of Infinity is Infinity, a finite value divided
\* by Infinity is 0, and Infinity divided by Infinity is NaN
Quotient(dot, normA, normB) ==
    LET infiniteNorm == normA.k = "inf" \/ normB.k = "inf"
    IN  IF dot.k = "nan" THEN NaN
        ELSE IF dot.k = "inf" THEN (IF infiniteNorm THEN NaN ELSE dot)
        ELSE IF infiniteNorm THEN Num(0)
        ELSE Num(CosineThousandths(dot.v, normA.v, normB.v))

\* function computeCosineSimilarity(a, b), on arrays of numbers (Number() is
\* the identity on a number); the loop returns 0 at the first NaN component
computeCosineSimilarity(a, b) ==
    IF Len(a) = 0 \/ Len(b) = 0 \/ Len(a) # Len(b) THEN Num(0)
    ELSE IF \E j \in 1..Len(a) : IsNaN(a[j]) \/ IsNaN(b[j]) THEN Num(0)
    ELSE LET dot == DotProduct(a, b, 1, Num(0))
             normA == DotProduct(a, a, 1, Num(0))
             normB == DotProduct(b, b, 1, Num(0))
         IN  IF IsZero(normA) \/ IsZero(normB) THEN Num(0)
             ELSE Quotient(dot, normA, normB)

\* the arrays of the model by name
ArrayNames == {"empty", "ref", "same", "at085", "below", "short", "huge"}

\* the arrays a student document can hold, and those a request can carry
StoredArrays == {"empty", "ref"}
CapturedArrays == {"same", "at085", "below", "short", "huge"}

\* computeCosineSimilarity of a stored and a captured array, computed once
CosineTable ==
    { [a |-> a, b |-> b, similarity |-> computeCosineSimilarity(Array(a), Array(b))] :
        a \in StoredArrays, b \in CapturedArrays }

\* computeCosineSimilarity(a, b) for two arrays given by name
CosineOf(a, b) == (CHOOSE e \in CosineTable : e.a = a /\ e.b = b).similarity

\* a.length for an array given by name
LengthTable == { [a |-> a, length |-> Len(Array(a))] : a \in ArrayNames }

LengthOf(a) == (CHOOSE e \in LengthTable : e.a = a).length

\* faceData of a request body: missing, or one of the captured embeddings
BodyFaceData == {"undefined"} \cup CapturedArrays

\* the components of the arrays given to the function taken on its own
Components == {Num(-1), Num(0), Num(1), Num(2), NaN, Infinity, NegInfinity}

\* the arrays of at most MaxLen components
Vectors == UNION {[1..n -> Components] : n \in 0..MaxLen}

(***************************************************************************)
(* The Similarity Oracle, remote strategy                                  *)
(***************************************************************************)
\* what awaiting faceppCompare can give: a thrown error (axios rejects on a
\* time-out, an unreachable host or an error status such as "no face"; the
\* function throws on a malformed answer) or resp.data.confidence / 100
FaceppOutcomes ==
    [ok : {FALSE}, error : {FaceppError(f) : f \in FaceppFailures}, similarity : {Num(0)}]
    \cup [ok : {TRUE}, error : {""}, similarity : {Num(c \div 100) : c \in FaceppConfidences}]

(***************************************************************************)
(* The collections                                                         *)
(***************************************************************************)
\* a findOne that leaves the studentId out of its filter
FindAnyStudent(studentId) ==
    IF \E s \in DOMAIN users : users[s].isActive
    THEN users[CHOOSE s \in DOMAIN users : users[s].isActive]
    ELSE Null

\* User.findOne({ studentId, role: 'student', isActive: true })
FindStudent(studentId) ==
    IF studentId \in DOMAIN users /\ users[studentId].isActive THEN users[studentId] ELSE Null

\* Course.findOne({ courseCode, isActive: true })
FindCourse(courseCode) ==
    IF courseCode \in DOMAIN courses /\ courses[courseCode].isActive THEN courses[courseCode] ELSE Null

\* a lookup that leaves the date out of its filter
ExistingAttendanceAnyDay(studentId, courseCode, date) ==
    \E r \in ledger : r.studentId = studentId /\ r.courseCode = courseCode

\* Attendance.findOne({ studentId, courseCode, date }) finds a document
ExistingAttendance(studentId, courseCode, date) ==
    \E r \in ledger : r.studentId = studentId /\ r.courseCode = courseCode /\ r.date = date

\* the Attendance collection without the unique index: no insert is refused
NoUniqueIndex(doc) == FALSE

\* attendanceSchema.index({ studentId: 1, courseCode: 1, date: 1 }, { unique: true }):
\* the insert of doc is refused with error code 11000
UniqueIndexViolated(doc) ==
    \E r \in ledger : r.studentId = doc.studentId /\ r.courseCode = doc.courseCode /\ r.date = doc.date

\* the validators of attendanceSchema that a handler's document can fail:
\* confidenceScore is cast to a Number, which NaN is refused as, and has to
\* lie between min and max
SchemaValid(doc) ==
    /\ ~IsNaN(doc.confidenceScore)
    /\ ~Less(doc.confidenceScore, Num(CONFIDENCE_MIN))
    /\ ~Less(Num(CONFIDENCE_MAX), doc.confidenceScore)
    /\ doc.status \in {"present", "absent", "late", "excused"}

\* a save that inserts the document before it reports the validation error
SaveUnvalidated(doc) ==
    IF UniqueIndexViolated(doc) THEN [ok |-> FALSE, code |-> 11000, ledger |-> ledger]
    ELSE [ok |-> SchemaValid(doc), code |-> 0, ledger |-> ledger \cup {doc}]

\* a save that writes doc over the document of the same key, if there is one
SaveAsUpsert(doc) ==
    IF ~SchemaValid(doc) THEN [ok |-> FALSE, code |-> 0, ledger |-> ledger]
    ELSE LET same == {d \in ledger : /\ d.studentId = doc.studentId
                                     /\ d.courseCode = doc.courseCode
                                     /\ d.date = doc.date}
         IN  [ok |-> TRUE, code |-> 0,
              ledger |-> (ledger \ same)
                         \cup (IF same = {} THEN {doc}
                               ELSE {[doc EXCEPT !._id = d._id] : d \in same})]

\* attendance.save() of a new document: it throws a validation error, or the
\* duplicate-key error 11000, or inserts the document
Save(doc) ==
    IF ~SchemaValid(doc) THEN [ok |-> FALSE, code |-> 0, ledger |-> ledger]
    ELSE IF UniqueIndexViolated(doc) THEN [ok |-> FALSE, code |-> 11000, ledger |-> ledger]
    ELSE [ok |-> TRUE, code |-> 0, ledger |-> ledger \cup {doc}]

\* new Attendance({...}) as both handlers build it; timestamp defaults to Date.now
NewAttendance(id, r, similarity, currentTime) ==
    LET c == Classify(currentTime)
    IN  [ _id |-> id,
          studentId |-> r.studentId,
          courseCode |-> ToUpperCase(r.courseCode),
          date |-> r.today,
          timestamp |-> currentTime,
          status |-> c.status,
          confidenceScore |-> similarity,
          isLate |-> c.isLate,
          lateMinutes |-> c.lateMinutes ]

\* new Notification({ userId, title, message, type, courseCode }) of createNotification,
\* called with the late-attendance title
LateNotification(id, doc) ==
    [ _id |-> id, userId |-> doc.studentId, title |-> "Late Attendance Recorded",
      lateMinutes |-> doc.lateMinutes, courseCode |-> doc.courseCode ]

(***************************************************************************)
(* The checks of the handlers                                              *)
(***************************************************************************)
\* student.enrolledCourses.includes(courseCode.toUpperCase())
IsEnrolled(student, courseCode) == ToUpperCase(courseCode) \in student.enrolledCourses

\* the face-token check left out
HasFaceTokenUnchecked(student) == TRUE

\* student.faceToken is set
HasFaceToken(student) == student.faceToken # ""

\* student.faceEncodings is a non-empty array
HasFaceEncodings(student) == LengthOf(student.faceEncodings) # 0

\* the check of faceData without the comparison of the lengths
ValidFaceDataAnyLength(faceData, student) == faceData # "undefined"

\* faceData is an array of the length of student.faceEncodings
ValidFaceData(faceData, student) ==
    faceData # "undefined" /\ LengthOf(faceData) = LengthOf(student.faceEncodings)

\* a notification for every record
NotifyAlways(isLate) == TRUE

\* if (isLate) before createNotification
NotifyLate(isLate) == isLate

\* the error of notification.save thrown on to the handler's catch block
NotificationUncaught(saved, id) ==
    IF saved THEN SuccessResponse(id) ELSE ErrorResponse(500, MsgFailed)

\* the response of a handler after createNotification has returned: the
\* function catches the error of notification.save and only logs it
AfterNotification(saved, id) == SuccessResponse(id)

(***************************************************************************)
(* Requests                                                                *)
(***************************************************************************)
\* req.user, the payload of the verified token: that of a student as the
\* student login signs it, that of an admin, and none before verification
NoUser == [studentId |-> "", role |-> ""]
StudentToken(s) == [studentId |-> s, role |-> "student"]
AdminToken == [studentId |-> "", role |-> "admin"]

\* a handler that takes the studentId of the request body when there is one
SubmitterFromBody(user, claimed) == IF claimed # "" THEN claimed ELSE user.studentId

\* const studentId = req.user.studentId
Submitter(user, claimed) == user.studentId

IdleReq ==
    [ pc |-> "idle", endpoint |-> "", studentId |-> "", courseCode |-> "",
      imageBase64 |-> FALSE, faceData |-> "undefined",
      student |-> Null, today |-> 0, similarity |-> Num(0), attendance |-> Null,
      oracleCalls |-> 0, oracleError |-> "", faceToken |-> "",
      user |-> NoUser, claimed |-> "", res |-> Null ]

\* the request moves to the next await
Goto(i, r, label) == req' = [req EXCEPT ![i] = [r EXCEPT !.pc = label]]

\* the handler sends its response and returns; the request body and the
\* student document it held are dropped
Respond(i, r, response) ==
    req' = [req EXCEPT ![i] = [r EXCEPT !.pc = "done", !.res = response,
                                        !.imageBase64 = FALSE, !.faceData = "undefined",
                                        !.student = Null, !.today = 0]]

(***************************************************************************)
(* POST /api/student/attendance-image                                      *)
(***************************************************************************)
\* the request arrives; the handler validates the body and awaits User.findOne
ImgReceiveAs(i, user, claimed) ==
    /\ req[i].pc = "idle"
    /\ IF i = 1 THEN TRUE ELSE req[i - 1].pc # "idle"
    /\ \E courseCode \in BodyCourseCodes, imageBase64 \in BOOLEAN :
          LET r == [req[i] EXCEPT !.endpoint = "image", !.user = user, !.claimed = claimed,
                                  !.studentId = Submitter(user, claimed),
                                  !.courseCode = courseCode, !.imageBase64 = imageBase64]
          IN  IF courseCode = "" THEN Respond(i, r, ErrorResponse(400, MsgCourseRequired))
              ELSE IF ~imageBase64 THEN Respond(i, r, ErrorResponse(400, MsgImageRequired))
              ELSE Goto(i, r, "findStudent")
    /\ UNCHANGED <<now, tzOffset, call, users, courses, ledger, notifications>>

\* the request of a student who has logged in, sent by the app, which puts no
\* studentId in the body
ImgReceive(i) == \E s \in Students : ImgReceiveAs(i, StudentToken(s), "")

\* User.findOne answers; student and enrollment checks; awaits Course.findOne
ImgFindStudent(i) ==
    /\ req[i].pc = "findStudent" /\ req[i].endpoint = "image"
    /\ LET student == FindStudent(req[i].studentId)
           r == [req[i] EXCEPT !.student = student]
       IN  IF student = Null THEN Respond(i, req[i], ErrorResponse(404, MsgStudentNotFound))
           ELSE IF ~IsEnrolled(student, r.courseCode)
                THEN Respond(i, r, ErrorResponse(400, MsgNotEnrolled))
           ELSE Goto(i, r, "findCourse")
    /\ UNCHANGED <<now, tzOffset, call, users, courses, ledger, notifications>>

\* Course.findOne answers; course check; today is read; awaits Attendance.findOne
ImgFindCourse(i) ==
    /\ req[i].pc = "findCourse" /\ req[i].endpoint = "image"
    /\ LET course == FindCourse(ToUpperCase(req[i].courseCode))
       IN  IF course = Null
           THEN Respond(i, req[i], ErrorResponse(404, MsgCourseNotFound)) /\ UNCHANGED now
           ELSE \E t \in Instants :
                   ReadClock(t) /\ Goto(i, [req[i] EXCEPT !.today = IsoDate(t)], "findExisting")
    /\ UNCHANGED <<tzOffset, call, users, courses, ledger, notifications>>

\* the image handler with faceppCompare called before the duplicate check
ImgCompareBeforeLookup(i) ==
    /\ req[i].pc = "findExisting" /\ req[i].endpoint = "image"
    /\ LET r == [req[i] EXCEPT !.oracleCalls = @ + 1]
       IN  IF ~HasFaceToken(r.student)
           THEN Respond(i, req[i], ErrorResponse(400, MsgNoFace))
           ELSE IF ExistingAttendance(r.studentId, ToUpperCase(r.courseCode), r.today)
                THEN Respond(i, r, ErrorResponse(400, MsgAlreadyMarked))
           ELSE Goto(i, r, "compare")
    /\ UNCHANGED <<now, tzOffset, call, users, courses, ledger, notifications>>

\* Attendance.findOne answers; duplicate and face-token checks; awaits faceppCompare
ImgFindExisting(i) ==
    /\ req[i].pc = "findExisting" /\ req[i].endpoint = "image"
    /\ LET r == req[i]
       IN  IF ExistingAttendance(r.studentId, ToUpperCase(r.courseCode), r.today)
           THEN Respond(i, r, ErrorResponse(400, MsgAlreadyMarked))
           ELSE IF ~HasFaceToken(r.student)
                THEN Respond(i, r, ErrorResponse(400, MsgNoFace))
           ELSE Goto(i, [r EXCEPT !.oracleCalls = @ + 1], "compare")
    /\ UNCHANGED <<now, tzOffset, call, users, courses, ledger, notifications>>

\* the error of faceppCompare left to the outer catch block
ImgCompareUncaught == ErrorResponse(500, MsgFailed)

\* a response that tells the client that the provider failed
ImgCompareFailedWithCause == ErrorResponse(400, "Face comparison service failed")

\* the response of the image handler when faceppCompare throws
ImgCompareFailed == ErrorResponse(400, MsgVerificationFailed)

\* the comparison with <= in place of <
ImgVerifiedStrictly(similarity) == Less(Num(IMG_SIMILARITY_THRESHOLD), similarity)

\* similarity < SIMILARITY_THRESHOLD of the image handler is false
ImgVerified(similarity) == ~Less(similarity, Num(IMG_SIMILARITY_THRESHOLD))

\* faceppCompare answers or throws; threshold; classification; awaits attendance.save
ImgCompare(i) ==
    /\ req[i].pc = "compare" /\ req[i].endpoint = "image"
    /\ \E o \in FaceppOutcomes :
          LET r == [req[i] EXCEPT !.oracleError = o.error, !.similarity = o.similarity]
          IN  IF ~o.ok THEN Respond(i, r, ImgCompareFailed) /\ UNCHANGED now
              ELSE IF ~ImgVerified(o.similarity)
                   THEN Respond(i, r, ErrorResponse(400, MsgVerificationFailed)) /\ UNCHANGED now
              ELSE \E t \in Instants :
                      /\ ReadClock(t)
                      /\ Goto(i, [r EXCEPT !.attendance = NewAttendance(i, r, o.similarity, t)], "save")
    /\ UNCHANGED <<tzOffset, call, users, courses, ledger, notifications>>

\* the catch block of the image handler, for the error thrown by attendance.save
ImgCatch(code) == ErrorResponse(500, MsgFailed)

\* attendance.save answers or throws; a late record awaits createNotification
ImgSave(i) ==
    /\ req[i].pc = "save" /\ req[i].endpoint = "image"
    /\ LET doc == req[i].attendance
           saved == Save(doc)
       IN  /\ ledger' = saved.ledger
           /\ IF ~saved.ok THEN Respond(i, req[i], ImgCatch(saved.code))
              ELSE IF NotifyLate(doc.isLate) THEN Goto(i, req[i], "notify")
              ELSE Respond(i, req[i], SuccessResponse(doc._id))
    /\ UNCHANGED <<now, tzOffset, call, users, courses, notifications>>

\* createNotification returns, having saved the notification or swallowed the error
ImgNotify(i) ==
    /\ req[i].pc = "notify" /\ req[i].endpoint = "image"
    /\ \E saved \in BOOLEAN :
          /\ notifications' = IF saved THEN notifications \cup {LateNotification(i, req[i].attendance)}
                              ELSE notifications
          /\ Respond(i, req[i], AfterNotification(saved, req[i].attendance._id))
    /\ UNCHANGED <<now, tzOffset, call, users, courses, ledger>>

(***************************************************************************)
(* POST /api/student/attendance                                            *)
(***************************************************************************)
\* the request arrives; the handler validates the course code and awaits User.findOne
AttReceiveAs(i, user, claimed) ==
    /\ req[i].pc = "idle"
    /\ IF i = 1 THEN TRUE ELSE req[i - 1].pc # "idle"
    /\ \E courseCode \in BodyCourseCodes, faceData \in BodyFaceData :
          LET r == [req[i] EXCEPT !.endpoint = "embedding", !.user = user, !.claimed = claimed,
                                  !.studentId = Submitter(user, claimed),
                                  !.courseCode = courseCode, !.faceData = faceData]
          IN  IF courseCode = "" THEN Respond(i, r, ErrorResponse(400, MsgCourseRequired))
              ELSE Goto(i, r, "findStudent")
    /\ UNCHANGED <<now, tzOffset, call, users, courses, ledger, notifications>>

\* the request of a student who has logged in, sent by the app
AttReceive(i) == \E s \in Students : AttReceiveAs(i, StudentToken(s), "")

\* User.findOne answers; student and enrollment checks; awaits Course.findOne
AttFindStudent(i) ==
    /\ req[i].pc = "findStudent" /\ req[i].endpoint = "embedding"
    /\ LET student == FindStudent(req[i].studentId)
           r == [req[i] EXCEPT !.student = student]
       IN  IF student = Null THEN Respond(i, req[i], ErrorResponse(404, MsgStudentNotFound))
           ELSE IF ~IsEnrolled(student, r.courseCode)
                THEN Respond(i, r, ErrorResponse(400, MsgNotEnrolled))
           ELSE Goto(i, r, "findCourse")
    /\ UNCHANGED <<now, tzOffset, call, users, courses, ledger, notifications>>

\* Course.findOne answers; course check; today is read; awaits Attendance.findOne
AttFindCourse(i) ==
    /\ req[i].pc = "findCourse" /\ req[i].endpoint = "embedding"
    /\ LET course == FindCourse(ToUpperCase(req[i].courseCode))
       IN  IF course = Null
           THEN Respond(i, req[i], ErrorResponse(404, MsgCourseNotFound)) /\ UNCHANGED now
           ELSE \E t \in Instants :
                   ReadClock(t) /\ Goto(i, [req[i] EXCEPT !.today = IsoDate(t)], "findExisting")
    /\ UNCHANGED <<tzOffset, call, users, courses, ledger, notifications>>

\* the embedding handler without its threshold
AttVerifiedAlways(similarity) == TRUE

\* similarity < SIMILARITY_THRESHOLD of the embedding handler is false
AttVerified(similarity) == ~Less(similarity, Num(SIMILARITY_THRESHOLD))

\* the embedding handler with the encodings check before the duplicate check
AttEncodingsBeforeLookup(i) ==
    /\ req[i].pc = "findExisting" /\ req[i].endpoint = "embedding"
    /\ LET r == req[i]
           similarity == CosineOf(r.student.faceEncodings, r.faceData)
           v == [r EXCEPT !.oracleCalls = @ + 1, !.similarity = similarity]
       IN  IF ~HasFaceEncodings(r.student)
           THEN Respond(i, r, ErrorResponse(400, MsgNoEncodings)) /\ UNCHANGED now
           ELSE IF ExistingAttendance(r.studentId, ToUpperCase(r.courseCode), r.today)
                THEN Respond(i, r, ErrorResponse(400, MsgAlreadyMarked)) /\ UNCHANGED now
           ELSE IF ~ValidFaceData(r.faceData, r.student)
                THEN Respond(i, r, ErrorResponse(400, MsgInvalidFaceData)) /\ UNCHANGED now
           ELSE IF ~AttVerified(similarity)
                THEN Respond(i, v, ErrorResponse(400, MsgVerificationFailed)) /\ UNCHANGED now
           ELSE \E t \in Instants :
                   /\ ReadClock(t)
                   /\ Goto(i, [v EXCEPT !.attendance = NewAttendance(i, r, similarity, t)], "save")
    /\ UNCHANGED <<tzOffset, call, users, courses, ledger, notifications>>

\* Attendance.findOne answers; duplicate, encodings and face-data checks;
\* computeCosineSimilarity; threshold; classification; awaits attendance.save
AttFindExisting(i) ==
    /\ req[i].pc = "findExisting" /\ req[i].endpoint = "embedding"
    /\ LET r == req[i]
           similarity == CosineOf(r.student.faceEncodings, r.faceData)
           v == [r EXCEPT !.oracleCalls = @ + 1, !.similarity = similarity]
       IN  IF ExistingAttendance(r.studentId, ToUpperCase(r.courseCode), r.today)
           THEN Respond(i, r, ErrorResponse(400, MsgAlreadyMarked)) /\ UNCHANGED now
           ELSE IF ~HasFaceEncodings(r.student)
                THEN Respond(i, r, ErrorResponse(400, MsgNoEncodings)) /\ UNCHANGED now
           ELSE IF ~ValidFaceData(r.faceData, r.student)
                THEN Respond(i, r, ErrorResponse(400, MsgInvalidFaceData)) /\ UNCHANGED now
           ELSE IF ~AttVerified(similarity)
                THEN Respond(i, v, ErrorResponse(400, MsgVerificationFailed)) /\ UNCHANGED now
           ELSE \E t \in Instants :
                   /\ ReadClock(t)
                   /\ Goto(i, [v EXCEPT !.attendance = NewAttendance(i, r, similarity, t)], "save")
    /\ UNCHANGED <<tzOffset, call, users, courses, ledger, notifications>>

\* the catch block of the embedding handler, for the error thrown by attendance.save
AttCatch(code) ==
    IF code = 11000 THEN ErrorResponse(400, MsgAlreadyMarkedOnSave)
    ELSE ErrorResponse(500, MsgFailed)

\* attendance.save answers or throws; a late record awaits createNotification
AttSave(i) ==
    /\ req[i].pc = "save" /\ req[i].endpoint = "embedding"
    /\ LET doc == req[i].attendance
           saved == Save(doc)
       IN  /\ ledger' = saved.ledger
           /\ IF ~saved.ok THEN Respond(i, req[i], AttCatch(saved.code))
              ELSE IF NotifyLate(doc.isLate) THEN Goto(i, req[i], "notify")
              ELSE Respond(i, req[i], SuccessResponse(doc._id))
    /\ UNCHANGED <<now, tzOffset, call, users, courses, notifications>>

\* createNotification returns, having saved the notification or swallowed the error
AttNotify(i) ==
    /\ req[i].pc = "notify" /\ req[i].endpoint = "embedding"
    /\ \E saved \in BOOLEAN :
          /\ notifications' = IF saved THEN notifications \cup {LateNotification(i, req[i].attendance)}
                              ELSE notifications
          /\ Respond(i, req[i], AfterNotification(saved, req[i].attendance._id))
    /\ UNCHANGED <<now, tzOffset, call, users, courses, ledger>>

(***************************************************************************)
(* DELETE /api/admin/students/:id, called by an admin; the :id of the      *)
(* model is the studentId                                                  *)
(***************************************************************************)
\* res.json({ success: true, message: 'Student deleted successfully' })
DeletedResponse == [status |-> 200, success |-> TRUE, error |-> "", attendanceId |-> 0]

\* a deleteMany without a filter
DeleteManyOfAll(d, student) == TRUE

\* the filter { studentId: student.studentId } of Attendance.deleteMany
DeleteManyFilter(d, student) == d.studentId = student.studentId

\* the request arrives; the handler awaits User.findById
DelReceive(i) ==
    /\ req[i].pc = "idle"
    /\ IF i = 1 THEN TRUE ELSE req[i - 1].pc # "idle"
    /\ \E id \in Students :
          Goto(i, [req[i] EXCEPT !.endpoint = "deleteStudent", !.studentId = id], "findById")
    /\ UNCHANGED <<now, tzOffset, call, users, courses, ledger, notifications>>

\* User.findById answers; the role check; awaits Course.updateMany
DelFindById(i) ==
    /\ req[i].pc = "findById" /\ req[i].endpoint = "deleteStudent"
    /\ LET student == IF req[i].studentId \in DOMAIN users THEN users[req[i].studentId] ELSE Null
       IN  IF student = Null THEN Respond(i, req[i], ErrorResponse(404, MsgStudentNotFound))
           ELSE IF student.enrolledCourses = {}
                THEN Goto(i, [req[i] EXCEPT !.student = student], "deleteMany")
           ELSE Goto(i, [req[i] EXCEPT !.student = student], "updateMany")
    /\ UNCHANGED <<now, tzOffset, call, users, courses, ledger, notifications>>

\* Course.updateMany pulls the student from the courses; awaits Attendance.deleteMany
DelUpdateMany(i) ==
    /\ req[i].pc = "updateMany" /\ req[i].endpoint = "deleteStudent"
    /\ courses' = [c \in DOMAIN courses |->
                      IF c \in req[i].student.enrolledCourses
                      THEN [courses[c] EXCEPT !.enrolledStudents = @ \ {req[i].student.studentId}]
                      ELSE courses[c]]
    /\ Goto(i, req[i], "deleteMany")
    /\ UNCHANGED <<now, tzOffset, call, users, ledger, notifications>>

\* Attendance.deleteMany removes the records of the student; awaits User.findByIdAndDelete
DelDeleteMany(i) ==
    /\ req[i].pc = "deleteMany" /\ req[i].endpoint = "deleteStudent"
    /\ ledger' = {d \in ledger : ~DeleteManyFilter(d, req[i].student)}
    /\ Goto(i, req[i], "findByIdAndDelete")
    /\ UNCHANGED <<now, tzOffset, call, users, courses, notifications>>

\* User.findByIdAndDelete removes the user; the handler answers
DelFindByIdAndDelete(i) ==
    /\ req[i].pc = "findByIdAndDelete" /\ req[i].endpoint = "deleteStudent"
    /\ users' = [x \in DOMAIN users \ {req[i].studentId} |-> users[x]]
    /\ Respond(i, req[i], DeletedResponse)
    /\ UNCHANGED <<now, tzOffset, call, courses, ledger, notifications>>

(***************************************************************************)
(* The functions of the Similarity Oracle taken on their own: call holds   *)
(* the function called, its arguments and, once it has returned, what it   *)
(* returned or that it threw.  The handlers leave call alone.              *)
(***************************************************************************)
NoCall ==
    [ fn |-> "", a |-> <<>>, b |-> <<>>, done |-> FALSE, threw |-> FALSE, result |-> Num(0) ]

\* computeCosineSimilarity(a, b) returns
CosineReturn ==
    /\ call.fn = "computeCosineSimilarity" /\ ~call.done
    /\ call' = [call EXCEPT !.done = TRUE,
                            !.result = computeCosineSimilarity(call.a, call.b)]
    /\ UNCHANGED <<now, tzOffset, users, courses, ledger, notifications, req>>

\* faceppCompare(faceToken1, imageBase64) returns resp.data.confidence / 100 or throws
FaceppReturn ==
    /\ call.fn = "faceppCompare" /\ ~call.done
    /\ \E o \in FaceppOutcomes :
          call' = [call EXCEPT !.done = TRUE, !.threw = ~o.ok, !.result = o.similarity]
    /\ UNCHANGED <<now, tzOffset, users, courses, ledger, notifications, req>>

(***************************************************************************)
(* The initial state: the users and courses that registration and the      *)
(* admin have stored, an empty Attendance collection, no request           *)
(***************************************************************************)
\* a User document of role 'student'
StudentDoc(studentId, enrolled, encodings, token) ==
    [ studentId |-> studentId, isActive |-> TRUE, enrolledCourses |-> enrolled,
      faceEncodings |-> encodings, faceToken |-> token ]

\* a Course document; enrolledStudents lists the students that were created
\* with the course among their enrolledCourses
CourseDoc(courseCode, isActive, students) ==
    [ courseCode |-> courseCode, isActive |-> isActive,
      enrolledStudents |-> {x \in DOMAIN students : courseCode \in students[x].enrolledCourses} ]

\* the face references a student can have registered: none, a Face++ token,
\* an embedding, or both (register-image and register are independent)
FaceReferences ==
    { [faceEncodings |-> e, faceToken |-> t] : e \in StoredArrays, t \in {"", "token"} }

Init ==
    /\ now = FirstInstant
    /\ tzOffset \in TzOffsets
    /\ call = NoCall
    /\ \E f \in FaceReferences :
          users = [s \in Students |->
                     IF s = "S1"
                     THEN StudentDoc(s, {"ICT651", "ICT652"}, f.faceEncodings, f.faceToken)
                     ELSE StudentDoc(s, {"ICT651"}, "ref", "token")]
    /\ courses = [c \in {"ICT651", "ICT652"} |-> CourseDoc(c, c # "ICT652", users)]
    /\ ledger = {}
    /\ notifications = {}
    /\ req = [i \in Reqs |-> IdleReq]

Next ==
    \/ \E i \in Reqs : ImgReceive(i)
    \/ \E i \in Reqs : ImgFindStudent(i)
    \/ \E i \in Reqs : ImgFindCourse(i)
    \/ \E i \in Reqs : ImgFindExisting(i)
    \/ \E i \in Reqs : ImgCompare(i)
    \/ \E i \in Reqs : ImgSave(i)
    \/ \E i \in Reqs : ImgNotify(i)
    \/ \E i \in Reqs : AttReceive(i)
    \/ \E i \in Reqs : AttFindStudent(i)
    \/ \E i \in Reqs : AttFindCourse(i)
    \/ \E i \in Reqs : AttFindExisting(i)
    \/ \E i \in Reqs : AttSave(i)
    \/ \E i \in Reqs : AttNotify(i)

Spec == Init /\ [][Next]_vars

\* the same service on a server whose time zone is ahead of UTC; S1 has
\* registered both kinds of face reference, and S2 still holds a token but
\* the account has been deactivated
InitAhead ==
    /\ now = FirstInstant
    /\ tzOffset \in TzOffsetsAhead
    /\ call = NoCall
    /\ users = [s \in Students |->
                   IF s = "S1" THEN StudentDoc(s, {"ICT651", "ICT652"}, "ref", "token")
                   ELSE [StudentDoc(s, {"ICT651"}, "ref", "token") EXCEPT !.isActive = FALSE]]
    /\ courses = [c \in {"ICT651", "ICT652"} |-> CourseDoc(c, c # "ICT652", users)]
    /\ ledger = {}
    /\ notifications = {}
    /\ req = [i \in Reqs |-> IdleReq]

SpecAhead == InitAhead /\ [][Next]_vars

\* the attendance endpoints together with the deletion of students by an
\* admin; both students have registered both kinds of face reference
InitDelete ==
    /\ now = FirstInstant
    /\ tzOffset \in TzOffsets
    /\ call = NoCall
    /\ users = [s \in Students |->
                   IF s = "S1" THEN StudentDoc(s, {"ICT651", "ICT652"}, "ref", "token")
                   ELSE StudentDoc(s, {"ICT651"}, "ref", "token")]
    /\ courses = [c \in {"ICT651", "ICT652"} |-> CourseDoc(c, c # "ICT652", users)]
    /\ ledger = {}
    /\ notifications = {}
    /\ req = [i \in Reqs |-> IdleReq]

NextDelete ==
    \/ Next
    \/ \E i \in Reqs : DelReceive(i)
    \/ \E i \in Reqs : DelFindById(i)
    \/ \E i \in Reqs : DelUpdateMany(i)
    \/ \E i \in Reqs : DelDeleteMany(i)
    \/ \E i \in Reqs : DelFindByIdAndDelete(i)

SpecDelete == InitDelete /\ [][NextDelete]_vars

\* a call of one of the two functions of the oracle on arguments of the model
InitOracle ==
    /\ now = FirstInstant
    /\ tzOffset \in TzOffsets
    /\ call \in { [NoCall EXCEPT !.fn = "computeCosineSimilarity", !.a = a, !.b = b] :
                     a \in Vectors, b \in Vectors }
               \cup { [NoCall EXCEPT !.fn = "faceppCompare"] }
    /\ users = [s \in Students |-> StudentDoc(s, {"ICT651"}, "ref", "token")]
    /\ courses = [c \in {"ICT651", "ICT652"} |-> CourseDoc(c, c # "ICT652", users)]
    /\ ledger = {}
    /\ notifications = {}
    /\ req = [i \in Reqs |-> IdleReq]

NextOracle == CosineReturn \/ FaceppReturn

SpecOracle == InitOracle /\ [][NextOracle]_vars

(***************************************************************************)
(* Registration of face references: POST /api/student/face/register,       *)
(* POST /api/student/face/register-image and POST /api/admin/students      *)
(***************************************************************************)
MsgEncodingsRequired == "Valid face encodings array is required"
MsgEncodingsInvalid == "Face encodings must be a numeric array of length between 64 and 1024"
MsgFaceNotDetected == "Face not detected. Please try again."
MsgStudentFieldsRequired == "Student name, ID, and date of birth are required"
MsgStudentExists == "Student with this ID or email already exists"
MsgInvalidCourseCodes == "Invalid course codes"
MsgStudentIdExists == "Student ID already exists"
MsgRegisterFailed == "Failed to register face"

\* res.json({ success: true, message: 'Face ... registered successfully' })
RegisteredResponse == [status |-> 200, success |-> TRUE, error |-> "", attendanceId |-> 0]

\* res.status(201).json({ success: true, message: 'Student created successfully', ... })
CreatedResponse == [status |-> 201, success |-> TRUE, error |-> "", attendanceId |-> 0]

\* the face tokens Face++ detect may answer
FaceTokens == {"token", "token2"}

\* faceppDetectGetToken returns faces[0].face_token or throws
DetectOutcomes == [ok : {TRUE}, faceToken : FaceTokens] \cup [ok : {FALSE}, faceToken : {""}]

\* the encodings a registration request may carry
BodyEncodings == {"undefined", "empty", "ref", "short", "huge"}

\* encodings.every(v => typeof v === 'number' && Number.isFinite(v))
AreNumbers(encodings) == \A j \in 1..Len(Array(encodings)) : Array(encodings)[j].k = "num"

\* an assignment of the embedding that also drops the token
SetFaceEncodingsOnly(student, encodings) ==
    [student EXCEPT !.faceEncodings = encodings, !.faceToken = ""]

\* student.faceEncodings = encodings; save() writes the modified path only
SetFaceEncodings(student, encodings) == [student EXCEPT !.faceEncodings = encodings]

\* student.faceToken = faceToken; save() writes the modified path only
SetFaceToken(student, faceToken) == [student EXCEPT !.faceToken = faceToken]

\* POST /student/face/register arrives with the studentId of the caller's
\* token; the two checks of the body; awaits User.findOne
RegReceive(i) ==
    /\ req[i].pc = "idle"
    /\ IF i = 1 THEN TRUE ELSE req[i - 1].pc # "idle"
    /\ \E s \in Students, encodings \in BodyEncodings :
          LET r == [req[i] EXCEPT !.endpoint = "register", !.studentId = s,
                                  !.faceData = encodings]
          IN  IF encodings = "undefined" \/ LengthOf(encodings) = 0
              THEN Respond(i, r, ErrorResponse(400, MsgEncodingsRequired))
              ELSE IF ~AreNumbers(encodings) \/ LengthOf(encodings) < MIN_ENCODINGS
              THEN Respond(i, r, ErrorResponse(400, MsgEncodingsInvalid))
              ELSE Goto(i, r, "findStudent")
    /\ UNCHANGED <<now, tzOffset, call, users, courses, ledger, notifications>>

\* User.findOne answers; awaits student.save
RegFindStudent(i) ==
    /\ req[i].pc = "findStudent" /\ req[i].endpoint = "register"
    /\ LET student == FindStudent(req[i].studentId)
       IN  IF student = Null THEN Respond(i, req[i], ErrorResponse(404, MsgStudentNotFound))
           ELSE Goto(i, [req[i] EXCEPT !.student = student], "save")
    /\ UNCHANGED <<now, tzOffset, call, users, courses, ledger, notifications>>

\* student.save stores the embedding in the document User.findOne found and
\* the handler answers; save throws when the document has been deleted
RegSave(i) ==
    /\ req[i].pc = "save" /\ req[i].endpoint = "register"
    /\ LET id == req[i].student.studentId
       IN  IF id \notin DOMAIN users
           THEN /\ users' = users
                /\ Respond(i, req[i], ErrorResponse(500, MsgRegisterFailed))
           ELSE /\ users' = [users EXCEPT ![id] = SetFaceEncodings(@, req[i].faceData)]
                /\ Respond(i, req[i], RegisteredResponse)
    /\ UNCHANGED <<now, tzOffset, call, courses, ledger, notifications>>

\* POST /student/face/register-image arrives; the check of the body; awaits
\* faceppDetectGetToken
RimReceive(i) ==
    /\ req[i].pc = "idle"
    /\ IF i = 1 THEN TRUE ELSE req[i - 1].pc # "idle"
    /\ \E s \in Students, imageBase64 \in BOOLEAN :
          LET r == [req[i] EXCEPT !.endpoint = "registerImage", !.studentId = s,
                                  !.imageBase64 = imageBase64]
          IN  IF ~imageBase64 THEN Respond(i, r, ErrorResponse(400, MsgImageRequired))
              ELSE Goto(i, r, "detect")
    /\ UNCHANGED <<now, tzOffset, call, users, courses, ledger, notifications>>

\* faceppDetectGetToken answers or throws; awaits User.findOne
RimDetect(i) ==
    /\ req[i].pc = "detect" /\ req[i].endpoint = "registerImage"
    /\ \E o \in DetectOutcomes :
          IF ~o.ok THEN Respond(i, req[i], ErrorResponse(400, MsgFaceNotDetected))
          ELSE Goto(i, [req[i] EXCEPT !.faceToken = o.faceToken], "findStudent")
    /\ UNCHANGED <<now, tzOffset, call, users, courses, ledger, notifications>>

\* User.findOne answers; awaits student.save
RimFindStudent(i) ==
    /\ req[i].pc = "findStudent" /\ req[i].endpoint = "registerImage"
    /\ LET student == FindStudent(req[i].studentId)
       IN  IF student = Null THEN Respond(i, req[i], ErrorResponse(404, MsgStudentNotFound))
           ELSE Goto(i, [req[i] EXCEPT !.student = student], "save")
    /\ UNCHANGED <<now, tzOffset, call, users, courses, ledger, notifications>>

\* student.save stores the token in the document User.findOne found and the
\* handler answers; save throws when the document has been deleted
RimSave(i) ==
    /\ req[i].pc = "save" /\ req[i].endpoint = "registerImage"
    /\ LET id == req[i].student.studentId
       IN  IF id \notin DOMAIN users
           THEN /\ users' = users
                /\ Respond(i, req[i], ErrorResponse(500, MsgRegisterFailed))
           ELSE /\ users' = [users EXCEPT ![id] = SetFaceToken(@, req[i].faceToken)]
                /\ Respond(i, req[i], RegisteredResponse)
    /\ UNCHANGED <<now, tzOffset, call, courses, ledger, notifications>>

\* const coursesToEnroll = enrolledCourses || []; the body of the model
\* carries at most one course code
CoursesToEnroll(r) == IF r.courseCode = "" THEN {} ELSE {r.courseCode}

\* what the handler of POST /admin/students does after the student is saved
\* and the face image, if any, has been dealt with
AdmAfterFace(i, r) ==
    IF CoursesToEnroll(r) # {} THEN Goto(i, r, "updateMany") ELSE Goto(i, r, "notify")

\* POST /admin/students arrives, called by an admin; the check of the
\* required fields ("" is a missing studentId); awaits User.findOne
AdmReceive(i) ==
    /\ req[i].pc = "idle"
    /\ IF i = 1 THEN TRUE ELSE req[i - 1].pc # "idle"
    /\ \E s \in Students \cup {""}, enrolledCourses \in {"", "ICT651", "ICT652"},
          faceImage \in BOOLEAN :
          LET r == [req[i] EXCEPT !.endpoint = "createStudent", !.studentId = s,
                                  !.courseCode = enrolledCourses, !.imageBase64 = faceImage]
          IN  IF s = "" THEN Respond(i, r, ErrorResponse(400, MsgStudentFieldsRequired))
              ELSE Goto(i, r, "findStudent")
    /\ UNCHANGED <<now, tzOffset, call, users, courses, ledger, notifications>>

\* User.findOne({ $or: [{ studentId }, { email }] }) answers; awaits
\* Course.find or student.save
AdmFindStudent(i) ==
    /\ req[i].pc = "findStudent" /\ req[i].endpoint = "createStudent"
    /\ IF req[i].studentId \in DOMAIN users
       THEN Respond(i, req[i], ErrorResponse(400, MsgStudentExists))
       ELSE IF CoursesToEnroll(req[i]) # {} THEN Goto(i, req[i], "findCourses")
       ELSE Goto(i, req[i], "saveStudent")
    /\ UNCHANGED <<now, tzOffset, call, users, courses, ledger, notifications>>

\* Course.find({ courseCode: { $in }, isActive: true }) answers; awaits student.save
AdmFindCourses(i) ==
    /\ req[i].pc = "findCourses" /\ req[i].endpoint = "createStudent"
    /\ IF \E c \in CoursesToEnroll(req[i]) : FindCourse(c) = Null
       THEN Respond(i, req[i], ErrorResponse(400, MsgInvalidCourseCodes))
       ELSE Goto(i, req[i], "saveStudent")
    /\ UNCHANGED <<now, tzOffset, call, users, courses, ledger, notifications>>

\* student.save of the new User with faceEncodings: []; the unique index on
\* studentId refuses a second student of the id (11000, answered with 400);
\* awaits faceppDetectGetToken when a face image was sent
AdmSaveStudent(i) ==
    /\ req[i].pc = "saveStudent" /\ req[i].endpoint = "createStudent"
    /\ IF req[i].studentId \in DOMAIN users
       THEN /\ users' = users
            /\ Respond(i, req[i], ErrorResponse(400, MsgStudentIdExists))
       ELSE /\ users' = [x \in DOMAIN users \cup {req[i].studentId} |->
                            IF x = req[i].studentId
                            THEN StudentDoc(x, CoursesToEnroll(req[i]), "empty", "")
                            ELSE users[x]]
            /\ IF req[i].imageBase64 THEN Goto(i, req[i], "detect")
               ELSE AdmAfterFace(i, req[i])
    /\ UNCHANGED <<now, tzOffset, call, courses, ledger, notifications>>

\* faceppDetectGetToken answers or throws; the error is logged and the
\* creation goes on; awaits savedStudent.save
AdmDetect(i) ==
    /\ req[i].pc = "detect" /\ req[i].endpoint = "createStudent"
    /\ \E o \in DetectOutcomes :
          IF ~o.ok THEN AdmAfterFace(i, req[i])
          ELSE Goto(i, [req[i] EXCEPT !.faceToken = o.faceToken], "saveToken")
    /\ UNCHANGED <<now, tzOffset, call, users, courses, ledger, notifications>>

\* savedStudent.save stores the token; when the document has been deleted
\* the error of save is logged like that of the detection
AdmSaveToken(i) ==
    /\ req[i].pc = "saveToken" /\ req[i].endpoint = "createStudent"
    /\ users' = IF req[i].studentId \notin DOMAIN users THEN users
                ELSE [users EXCEPT ![req[i].studentId] = SetFaceToken(@, req[i].faceToken)]
    /\ AdmAfterFace(i, req[i])
    /\ UNCHANGED <<now, tzOffset, call, courses, ledger, notifications>>

\* Course.updateMany adds the student to the active courses of the request
AdmUpdateMany(i) ==
    /\ req[i].pc = "updateMany" /\ req[i].endpoint = "createStudent"
    /\ courses' = [c \in DOMAIN courses |->
                      IF c \in CoursesToEnroll(req[i]) /\ courses[c].isActive
                      THEN [courses[c] EXCEPT !.enrolledStudents = @ \cup {req[i].studentId}]
                      ELSE courses[c]]
    /\ Goto(i, req[i], "notify")
    /\ UNCHANGED <<now, tzOffset, call, users, ledger, notifications>>

\* the welcome notification of createNotification
WelcomeNotification(id, studentId) ==
    [ _id |-> id, userId |-> studentId, title |-> "Welcome to the Attendance System",
      lateMinutes |-> 0, courseCode |-> "" ]

\* createNotification returns, having saved the notification or swallowed
\* the error; the handler answers 201
AdmNotify(i) ==
    /\ req[i].pc = "notify" /\ req[i].endpoint = "createStudent"
    /\ \E saved \in BOOLEAN :
          notifications' = IF saved
                           THEN notifications \cup {WelcomeNotification(i, req[i].studentId)}
                           ELSE notifications
    /\ Respond(i, req[i], CreatedResponse)
    /\ UNCHANGED <<now, tzOffset, call, users, courses, ledger>>

\* the registration endpoints on their own: S1 exists and has registered no
\* face reference yet, S2 has not been created
InitRegister ==
    /\ now = FirstInstant
    /\ tzOffset \in TzOffsets
    /\ call = NoCall
    /\ users = [s \in {"S1"} |-> StudentDoc(s, {"ICT651"}, "empty", "")]
    /\ courses = [c \in {"ICT651", "ICT652"} |-> CourseDoc(c, c # "ICT652", users)]
    /\ ledger = {}
    /\ notifications = {}
    /\ req = [i \in Reqs |-> IdleReq]

NextRegister ==
    \/ \E i \in Reqs : RegReceive(i)
    \/ \E i \in Reqs : RegFindStudent(i)
    \/ \E i \in Reqs : RegSave(i)
    \/ \E i \in Reqs : RimReceive(i)
    \/ \E i \in Reqs : RimDetect(i)
    \/ \E i \in Reqs : RimFindStudent(i)
    \/ \E i \in Reqs : RimSave(i)
    \/ \E i \in Reqs : AdmReceive(i)
    \/ \E i \in Reqs : AdmFindStudent(i)
    \/ \E i \in Reqs : AdmFindCourses(i)
    \/ \E i \in Reqs : AdmSaveStudent(i)
    \/ \E i \in Reqs : AdmDetect(i)
    \/ \E i \in Reqs : AdmSaveToken(i)
    \/ \E i \in Reqs : AdmUpdateMany(i)
    \/ \E i \in Reqs : AdmNotify(i)

SpecRegister == InitRegister /\ [][NextRegister]_vars

\* the whole service: attendance submissions, registrations, creation and
\* deletion of students, all running together.  S1 has been created by an
\* admin with a face image and is enrolled; S2 has not been created
InitService ==
    /\ now = FirstInstant
    /\ tzOffset \in TzOffsets
    /\ call = NoCall
    /\ users = [s \in {"S1"} |-> StudentDoc(s, {"ICT651", "ICT652"}, "empty", "token")]
    /\ courses = [c \in {"ICT651", "ICT652"} |-> CourseDoc(c, c # "ICT652", users)]
    /\ ledger = {}
    /\ notifications = {}
    /\ req = [i \in Reqs |-> IdleReq]

NextService ==
    \/ Next
    \/ NextRegister
    \/ \E i \in Reqs : DelReceive(i)
    \/ \E i \in Reqs : DelFindById(i)
    \/ \E i \in Reqs : DelUpdateMany(i)
    \/ \E i \in Reqs : DelDeleteMany(i)
    \/ \E i \in Reqs : DelFindByIdAndDelete(i)

SpecService == InitService /\ [][NextService]_vars

(***************************************************************************)
(* The middleware in front of the attendance endpoints: authenticateToken  *)
(* and requireStudent                                                      *)
(***************************************************************************)
MsgTokenRequired == "Access token required"
MsgInvalidToken == "Invalid or expired token"
MsgStudentRequired == "Student access required"

\* the Authorization header of a request: none, a token jwt.verify refuses
\* (forged, expired), or a token the server has signed at a login
Headers ==
    { [kind |-> "none", user |-> NoUser], [kind |-> "invalid", user |-> StudentToken("S1")] }
    \cup { [kind |-> "valid", user |-> StudentToken(s)] : s \in Students }
    \cup { [kind |-> "valid", user |-> AdminToken] }

\* the studentId a client may put into the body of its request
ClaimedStudentIds == {"", "S2"}

\* authenticateToken: the response it sends, or Null when it calls next()
authenticateToken(header) ==
    IF header.kind = "none" THEN ErrorResponse(401, MsgTokenRequired)
    ELSE IF header.kind = "invalid" THEN ErrorResponse(403, MsgInvalidToken)
    ELSE Null

\* a middleware that lets every verified token through
requireAnyRole(user) == Null

\* requireStudent: the response it sends, or Null when it calls next()
requireStudent(user) ==
    IF user.role # "student" THEN ErrorResponse(403, MsgStudentRequired) ELSE Null

\* a request for one of the attendance endpoints is stopped by the middleware
Refused(i, endpoint, header, claimed) ==
    /\ req[i].pc = "idle"
    /\ IF i = 1 THEN TRUE ELSE req[i - 1].pc # "idle"
    /\ LET r == [req[i] EXCEPT !.endpoint = endpoint, !.claimed = claimed]
       IN  IF authenticateToken(header) # Null THEN Respond(i, r, authenticateToken(header))
           ELSE Respond(i, [r EXCEPT !.user = header.user], requireStudent(header.user))
    /\ UNCHANGED <<now, tzOffset, call, users, courses, ledger, notifications>>

\* the middleware lets the request through to the handler
Passes(header) ==
    authenticateToken(header) = Null /\ requireStudent(header.user) = Null

\* a request for POST /student/attendance-image arrives with any header and body
ImgRoute(i) ==
    \E header \in Headers, claimed \in ClaimedStudentIds :
        IF Passes(header) THEN ImgReceiveAs(i, header.user, claimed)
        ELSE Refused(i, "image", header, claimed)

\* a request for POST /student/attendance arrives with any header and body
AttRoute(i) ==
    \E header \in Headers, claimed \in ClaimedStudentIds :
        IF Passes(header) THEN AttReceiveAs(i, header.user, claimed)
        ELSE Refused(i, "embedding", header, claimed)

\* the attendance endpoints behind their middleware, open to any client; S1
\* has registered both kinds of face reference, the account of S2 has been
\* deactivated
InitAuth ==
    /\ now = FirstInstant
    /\ tzOffset \in TzOffsets
    /\ call = NoCall
    /\ users = [s \in Students |->
                   IF s = "S1" THEN StudentDoc(s, {"ICT651", "ICT652"}, "ref", "token")
                   ELSE [StudentDoc(s, {"ICT651"}, "ref", "token") EXCEPT !.isActive = FALSE]]
    /\ courses = [c \in {"ICT651", "ICT652"} |-> CourseDoc(c, c # "ICT652", users)]
    /\ ledger = {}
    /\ notifications = {}
    /\ req = [i \in Reqs |-> IdleReq]

NextAuth ==
    \/ \E i \in Reqs : ImgRoute(i)
    \/ \E i \in Reqs : AttRoute(i)
    \/ \E i \in Reqs : ImgFindStudent(i)
    \/ \E i \in Reqs : ImgFindCourse(i)
    \/ \E i \in Reqs : ImgFindExisting(i)
    \/ \E i \in Reqs : ImgCompare(i)
    \/ \E i \in Reqs : ImgSave(i)
    \/ \E i \in Reqs : ImgNotify(i)
    \/ \E i \in Reqs : AttFindStudent(i)
    \/ \E i \in Reqs : AttFindCourse(i)
    \/ \E i \in Reqs : AttFindExisting(i)
    \/ \E i \in Reqs : AttSave(i)
    \/ \E i \in Reqs : AttNotify(i)

SpecAuth == InitAuth /\ [][NextAuth]_vars

\* the awaits of the attendance handlers on the store
StoreAwaits == {"findStudent", "findCourse", "findExisting", "save"}

\* a handler that starts over when the store throws
RetryOnStoreError(i, r) == Goto(i, r, "findStudent")

\* the catch block of the handler for an error of the store that is not a
\* duplicate key: it answers 500 and returns
CatchStoreError(i, r) ==
    Respond(i, r, IF r.endpoint = "image" THEN ImgCatch(0) ELSE AttCatch(0))

\* an operation on the store (findOne, save) rejects: the connection is
\* lost, or the operation times out
StoreThrows(i) ==
    /\ req[i].endpoint \in {"image", "embedding"}
    /\ req[i].pc \in StoreAwaits
    /\ CatchStoreError(i, req[i])
    /\ UNCHANGED <<now, tzOffset, call, users, courses, ledger, notifications>>

\* what the handler of request i does once the request has arrived
Step(i) ==
    \/ ImgFindStudent(i) \/ ImgFindCourse(i) \/ ImgFindExisting(i)
    \/ ImgCompare(i) \/ ImgSave(i) \/ ImgNotify(i)
    \/ AttFindStudent(i) \/ AttFindCourse(i) \/ AttFindExisting(i)
    \/ AttSave(i) \/ AttNotify(i)
    \/ StoreThrows(i)

\* the attendance endpoints over a store that can fail; S1 has registered
\* both kinds of face reference, the account of S2 has been deactivated
InitLive ==
    /\ now = FirstInstant
    /\ tzOffset \in TzOffsets
    /\ call = NoCall
    /\ users = [s \in Students |->
                   IF s = "S1" THEN StudentDoc(s, {"ICT651", "ICT652"}, "ref", "token")
                   ELSE [StudentDoc(s, {"ICT651"}, "ref", "token") EXCEPT !.isActive = FALSE]]
    /\ courses = [c \in {"ICT651", "ICT652"} |-> CourseDoc(c, c # "ICT652", users)]
    /\ ledger = {}
    /\ notifications = {}
    /\ req = [i \in Reqs |-> IdleReq]

NextLive ==
    \/ Next
    \/ \E i \in Reqs : StoreThrows(i)

\* every await of a handler settles: the driver answers or rejects, and the
\* call to Face++ has a timeout of 15 s.  Requests arrive when clients send them
SpecLive ==
    /\ InitLive
    /\ [][NextLive]_vars
    /\ \A i \in Reqs : WF_vars(Step(i))

(***************************************************************************)
(* Vocabulary of the properties                                            *)
(***************************************************************************)
Done(i) == req[i].pc = "done"

Accepted(i) == Done(i) /\ req[i].res.status = 200

RejectedWith(i, msg) == Done(i) /\ req[i].res.status # 200 /\ req[i].res.error = msg

\* two Attendance documents have the same (studentId, courseCode, date)
SameKey(d, e) == d.studentId = e.studentId /\ d.courseCode = e.courseCode /\ d.date = e.date

\* request i passed every check and built its document
ReachedSave(i) == req[i].attendance # Null

\* request i has inserted its document
Committed(i) == ReachedSave(i) /\ req[i].attendance \in ledger

\* request i was refused at attendance.save because of the unique index
LostRace(i) ==
    /\ Done(i) /\ ReachedSave(i) /\ ~Committed(i)
    /\ \E r \in ledger : SameKey(r, req[i].attendance)

\* the two messages that say "already marked today"
AlreadyMarkedMessages == {MsgAlreadyMarked, MsgAlreadyMarkedOnSave}

(***************************************************************************)
(* C1.  In every reachable state the Attendance collection holds at most   *)
(* one record for each (studentId, courseCode, date), whatever the         *)
(* interleaving of the requests of the two endpoints.                      *)
(***************************************************************************)
C1_AtMostOneRecordPerKey ==
    \A d \in ledger, e \in ledger : SameKey(d, e) => d = e

\* two requests for one key both passed the duplicate lookup; one inserted
\* its record and the other was refused at save
C1_Witness ==
    \E i \in Reqs, j \in Reqs :
        /\ i # j /\ Committed(i) /\ LostRace(j)
        /\ SameKey(req[i].attendance, req[j].attendance)

(***************************************************************************)
(* C2.  When several otherwise-valid requests for one (studentId,          *)
(* courseCode, date) have all passed the duplicate lookup and all have     *)
(* finished, exactly one is Accepted and every other one is rejected with  *)
(* status 400 and an "already marked today" message.                       *)
(***************************************************************************)
C2_ExactlyOneAcceptedOthersAlreadyMarked ==
    \A i \in Reqs :
        ReachedSave(i) =>
            LET group == {j \in Reqs : ReachedSave(j) /\ SameKey(req[j].attendance, req[i].attendance)}
            IN  (Cardinality(group) >= 2 /\ \A j \in group : Done(j)) =>
                    /\ Cardinality({j \in group : Accepted(j)}) = 1
                    /\ \A j \in group :
                          ~Accepted(j) => /\ req[j].res.status = 400
                                          /\ req[j].res.error \in AlreadyMarkedMessages

(***************************************************************************)
(* C3.  On both endpoints a request whose attendance.save is refused by    *)
(* the unique index ends with the 400 rejection "already marked today",    *)
(* never with a 500.                                                       *)
(***************************************************************************)
C3_CommitRaceIsRejection400 ==
    \A i \in Reqs :
        LostRace(i) => /\ req[i].res.status = 400
                       /\ req[i].res.error \in AlreadyMarkedMessages

(***************************************************************************)
(* The checks of a request as the data of the state decide them            *)
(***************************************************************************)
\* the course named by r is in the enrollment set of its student
EnrolledIn(r) == ToUpperCase(r.courseCode) \in users[r.studentId].enrolledCourses

\* the course named by r exists and is active
ActiveCourse(r) ==
    /\ ToUpperCase(r.courseCode) \in DOMAIN courses
    /\ courses[ToUpperCase(r.courseCode)].isActive

\* the ledger has a record of r's student and course for the date r read
MarkedToday(r) ==
    \E d \in ledger : /\ d.studentId = r.studentId
                      /\ d.courseCode = ToUpperCase(r.courseCode)
                      /\ d.date = r.today

\* the student of r has the face reference that r's endpoint uses
ReferenceStored(r) ==
    IF r.endpoint = "image" THEN users[r.studentId].faceToken # ""
    ELSE users[r.studentId].faceEncodings # "empty"

\* the "not registered" message of r's endpoint
MsgNotRegistered(r) == IF r.endpoint = "image" THEN MsgNoFace ELSE MsgNoEncodings

\* q is a finished request rejected with this status and message
Rejection(q, status, msg) == q.pc = "done" /\ q.res.status = status /\ q.res.error = msg

(***************************************************************************)
(* C4.  A request rejected by the enrollment check, the course check or    *)
(* the duplicate check has not invoked the Similarity Oracle (faceppCompare *)
(* or computeCosineSimilarity).                                            *)
(***************************************************************************)
C4_NoOracleBeforeCheapChecks ==
    \A i \in Reqs :
        (Done(i) /\ req[i].res.error \in {MsgNotEnrolled, MsgCourseNotFound, MsgAlreadyMarked})
            => req[i].oracleCalls = 0

\* a request of a student who has the face reference of the endpoint, so that
\* the oracle was the next step, is rejected as a duplicate with no oracle call
C4_Witness ==
    \E i \in Reqs :
        /\ RejectedWith(i, MsgAlreadyMarked)
        /\ ReferenceStored(req[i])
        /\ req[i].oracleCalls = 0

(***************************************************************************)
(* C5.  The checks run in the order enrollment, course, duplicate, face    *)
(* reference, verification, and the first one that fails decides the       *)
(* rejection: each step of a request answers with the reason of the        *)
(* earliest check that fails there, whatever the later checks would say,   *)
(* and a request is at a later check only if the earlier ones passed.      *)
(***************************************************************************)
C5_Step(i) ==
    LET r == req[i]
        q == req'[i]
    IN  /\ (r.pc = "findStudent" /\ q.pc # r.pc) =>
              IF ~EnrolledIn(r) THEN Rejection(q, 400, MsgNotEnrolled)
              ELSE q.pc = "findCourse"
        /\ (r.pc = "findCourse" /\ q.pc # r.pc) =>
              IF ~ActiveCourse(r) THEN Rejection(q, 404, MsgCourseNotFound)
              ELSE q.pc = "findExisting"
        /\ (r.pc = "findExisting" /\ q.pc # r.pc) =>
              IF MarkedToday(r) THEN Rejection(q, 400, MsgAlreadyMarked)
              ELSE IF ~ReferenceStored(r) THEN Rejection(q, 400, MsgNotRegistered(r))
              ELSE \/ q.pc \in {"compare", "save"}
                   \/ Rejection(q, 400, MsgInvalidFaceData)
                   \/ Rejection(q, 400, MsgVerificationFailed)

C5_Stages ==
    \A i \in Reqs :
        /\ req[i].pc \in {"findCourse", "findExisting", "compare", "save", "notify"}
              => EnrolledIn(req[i])
        /\ req[i].pc \in {"findExisting", "compare", "save", "notify"}
              => ActiveCourse(req[i])
        /\ req[i].pc \in {"compare", "save", "notify"}
              => ReferenceStored(req[i])

C5_ChecksInOrder == []C5_Stages /\ [][\A i \in Reqs : C5_Step(i)]_vars

\* a student who is already marked and has no face reference for the endpoint
\* is told "already marked today"
C5_Witness ==
    \E i \in Reqs :
        /\ RejectedWith(i, MsgAlreadyMarked)
        /\ ~ReferenceStored(req[i])

(***************************************************************************)
(* C6.  A request of an enrolled student with no record today and no       *)
(* stored face reference is rejected "not registered": no record is        *)
(* created and the oracle is not invoked.                                  *)
(***************************************************************************)
C6_Step(i) ==
    LET r == req[i]
        q == req'[i]
    IN  (r.pc = "findExisting" /\ q.pc # r.pc /\ ~MarkedToday(r) /\ ~ReferenceStored(r)) =>
            /\ Rejection(q, 400, MsgNotRegistered(r))
            /\ q.oracleCalls = 0
            /\ ledger' = ledger

C6_Rejected ==
    \A i \in Reqs :
        (Done(i) /\ req[i].res.error \in {MsgNoFace, MsgNoEncodings}) =>
            /\ req[i].res.status = 400
            /\ req[i].oracleCalls = 0
            /\ ~ReachedSave(i)
            /\ \A d \in ledger : d._id # i

C6_NotRegistered == []C6_Rejected /\ [][\A i \in Reqs : C6_Step(i)]_vars

\* on each kind of endpoint: a student without the reference was rejected
\* "not registered" and has no record
C6_Witness ==
    \E i \in Reqs :
        /\ RejectedWith(i, MsgNotRegistered(req[i]))
        /\ ~ReferenceStored(req[i])
        /\ \A d \in ledger : d.studentId # req[i].studentId

(***************************************************************************)
(* C7.  With the earlier checks passed and an answer from the oracle, a    *)
(* request goes on to the commit if and only if the similarity is at least *)
(* 0.85 (850 thousandths), on both endpoints with the same threshold;      *)
(* otherwise it is rejected "verification failed".  The recorded           *)
(* confidenceScore is that similarity.                                     *)
(***************************************************************************)
\* the number x is at least n thousandths
AtLeast(x, n) == x.k = "num" /\ x.v >= n

\* the number x is below n thousandths
Below(x, n) == x.k = "num" /\ x.v < n

\* the oracle has answered request i and the threshold has been applied
ThresholdApplied(i) ==
    /\ req[i].oracleCalls = 1
    /\ req[i].pc # "compare"
    /\ req[i].oracleError = ""

C7_ThresholdIsExactly085 ==
    /\ IMG_SIMILARITY_THRESHOLD = 850
    /\ SIMILARITY_THRESHOLD = 850
    /\ \A i \in Reqs :
          /\ ThresholdApplied(i) =>
                /\ AtLeast(req[i].similarity, 850) => ReachedSave(i)
                /\ Below(req[i].similarity, 850) <=> ~ReachedSave(i)
                /\ ~ReachedSave(i) <=> Rejection(req[i], 400, MsgVerificationFailed)
          /\ ReachedSave(i) =>
                /\ ThresholdApplied(i)
                /\ req[i].attendance.confidenceScore = req[i].similarity
          /\ Accepted(i) => (ReachedSave(i) /\ AtLeast(req[i].similarity, 850))
    /\ \A d \in ledger : AtLeast(d.confidenceScore, 850)

\* a similarity of exactly 0.85 was accepted and one just below it rejected
C7_Witness ==
    \E i \in Reqs, j \in Reqs :
        /\ Accepted(i) /\ req[i].similarity = Num(850)
        /\ RejectedWith(j, MsgVerificationFailed)
        /\ req[j].oracleError = "" /\ req[j].similarity = Num(849)

(***************************************************************************)
(* C8.  As stated: with T = 09:00 of the record's day and G = 15 minutes,  *)
(* a record taken at now is present and not late when now - T <= G, and    *)
(* late when now - T > G; lateMinutes is the whole minutes of now - T when *)
(* late.                                                                   *)
(***************************************************************************)
\* seconds from 09:00 of the local day of the record to its timestamp
SinceClassStart(d) ==
    d.timestamp - ((d.timestamp \div SecondsPerDay) * SecondsPerDay + 9 * 3600)

C8_LateAfterGrace ==
    \A d \in ledger :
        /\ SinceClassStart(d) <= 15 * 60 => (d.status = "present" /\ ~d.isLate)
        /\ SinceClassStart(d) > 15 * 60 => (d.status = "late" /\ d.isLate)
        /\ d.isLate => d.lateMinutes = SinceClassStart(d) \div 60

(***************************************************************************)
(* C8, amended.  With m the whole minutes elapsed since 09:00 (rounded     *)
(* down, at most 0 when now <= T): a record is present, not late and has   *)
(* lateMinutes 0 when m <= 15, that is up to 09:15:59, and is late with    *)
(* lateMinutes = m when m > 15, that is from 09:16:00.                     *)
(***************************************************************************)
C8_LateAfterGraceInWholeMinutes ==
    \A d \in ledger :
        LET m == SinceClassStart(d) \div 60
        IN  /\ m <= 15 => (d.status = "present" /\ ~d.isLate /\ d.lateMinutes = 0)
            /\ m > 15 => (d.status = "late" /\ d.isLate /\ d.lateMinutes = m)

\* a record taken at 09:15:30 is present, and one taken at 09:16:00 is late by 16
C8_Witness ==
    /\ \E d \in ledger : SinceClassStart(d) = 15 * 60 + 30 /\ d.status = "present"
    /\ \E d \in ledger : SinceClassStart(d) = 16 * 60 /\ d.status = "late" /\ d.lateMinutes = 16

(***************************************************************************)
(* C9.  When the call to the oracle fails (no face, malformed answer,      *)
(* provider unreachable, time-out) the request is rejected with status 400 *)
(* "verification failed", the oracle is not called again, and no record is *)
(* created.                                                                *)
(***************************************************************************)
C9_OracleFailureIsRejection ==
    \A i \in Reqs :
        /\ req[i].oracleCalls <= 1
        /\ req[i].oracleError # "" =>
              /\ Rejection(req[i], 400, MsgVerificationFailed)
              /\ req[i].oracleCalls = 1
              /\ ~ReachedSave(i)
              /\ \A d \in ledger : d._id # i

\* both ways faceppCompare throws have happened
C9_Witness ==
    \E i \in Reqs, j \in Reqs :
        /\ Done(i) /\ req[i].oracleError = "axios"
        /\ Done(j) /\ req[j].oracleError = "Invalid compare response"

(***************************************************************************)
(* C10.  A late-attendance notification exists only for a request whose    *)
(* record is in the ledger and is late, and it is created in a step in     *)
(* which that record was already committed: none for a rejected request,   *)
(* for the loser of a commit race or for an on-time record.                *)
(***************************************************************************)
C10_Notified ==
    /\ \A n \in notifications :
          \E d \in ledger : d._id = n._id /\ d.isLate /\ d.studentId = n.userId
    /\ \A i \in Reqs :
          (Done(i) /\ ~Accepted(i)) => \A n \in notifications : n._id # i

C10_Step ==
    \A n \in notifications' \ notifications :
        \E d \in ledger : d._id = n._id /\ d.isLate

C10_NotifyOnlyAfterLateCommit == []C10_Notified /\ [][C10_Step]_vars

\* a late record has its notification while the request that lost the commit
\* race for the same late slot has none
C10_Witness ==
    \E i \in Reqs, j \in Reqs :
        /\ Committed(i) /\ req[i].attendance.isLate
        /\ \E n \in notifications : n._id = i
        /\ LostRace(j) /\ req[j].attendance.isLate
        /\ \A n \in notifications : n._id # j

(***************************************************************************)
(* C11.  When createNotification fails for a late record, the request      *)
(* still ends Accepted with the success response that names its record,    *)
(* and the record stays in the ledger as it was committed: the step that   *)
(* returns from createNotification changes no record, and no request that  *)
(* committed its record ends with a rejection or an error.                 *)
(***************************************************************************)
\* request i committed a late record and finished without a notification
NotificationFailed(i) ==
    /\ Done(i) /\ Committed(i) /\ req[i].attendance.isLate
    /\ \A n \in notifications : n._id # i

C11_Accepted ==
    \A i \in Reqs :
        /\ NotificationFailed(i) => req[i].res = SuccessResponse(req[i].attendance._id)
        /\ (Done(i) /\ Committed(i)) => Accepted(i)

C11_Step(i) ==
    (req[i].pc = "notify" /\ req'[i].pc # "notify") =>
        /\ req[i].attendance \in ledger
        /\ ledger' = ledger
        /\ req'[i].attendance = req[i].attendance
        /\ req'[i].res = SuccessResponse(req[i].attendance._id)

C11_NotificationFailureKeepsAcceptance ==
    []C11_Accepted /\ [][\A i \in Reqs : C11_Step(i)]_vars

\* on each endpoint a late record was committed, its notification failed, and
\* the request was accepted
C11_Witness ==
    \E i \in Reqs, j \in Reqs :
        /\ req[i].endpoint = "image" /\ NotificationFailed(i) /\ Accepted(i)
        /\ req[j].endpoint = "embedding" /\ NotificationFailed(j) /\ Accepted(j)

(***************************************************************************)
(* C12.  The date key a request reads for the duplicate check and stores   *)
(* in its record is the server-local calendar date of the instant at which *)
(* it is read, the day whose 09:00 is the class start, whatever the        *)
(* server's offset from UTC; so the records of its student and course it   *)
(* collides with are records taken on that local day, never on another.    *)
(***************************************************************************)
\* the server-local calendar date of the instant t, as a day number
LocalDate(t) == t \div SecondsPerDay

C12_Step(i) ==
    (req[i].pc = "findCourse" /\ req'[i].pc = "findExisting") =>
        /\ req'[i].today = LocalDate(now')
        /\ ClassStartTime(now') = req'[i].today * SecondsPerDay + 9 * 3600
        /\ \A d \in ledger :
              (/\ d.studentId = req[i].studentId
               /\ d.courseCode = ToUpperCase(req[i].courseCode)
               /\ d.date = req'[i].today) => LocalDate(d.timestamp) = LocalDate(now')

C12_DateKeyIsLocalDate == [][\A i \in Reqs : C12_Step(i)]_vars

(***************************************************************************)
(* C13.  Status codes of the error responses of both endpoints: 404 when   *)
(* the student or the course is unknown or inactive; 400 for a validation  *)
(* failure, not enrolled, already marked today, not registered and         *)
(* verification failed; and 400 for a duplicate that the unique index      *)
(* finds at attendance.save.                                               *)
(***************************************************************************)
ValidationMessages == {MsgCourseRequired, MsgImageRequired, MsgInvalidFaceData}

PolicyMessages == {MsgNotEnrolled, MsgAlreadyMarked, MsgAlreadyMarkedOnSave, MsgNoFace, MsgNoEncodings}

NotFoundMessages == {MsgStudentNotFound, MsgCourseNotFound}

C13_Codes ==
    \A i \in Reqs :
        (Done(i) /\ ~Accepted(i)) =>
            /\ req[i].res.error \in ValidationMessages \cup PolicyMessages \cup {MsgVerificationFailed}
                  => req[i].res.status = 400
            /\ req[i].res.error \in NotFoundMessages => req[i].res.status = 404
            /\ LostRace(i) => req[i].res.status = 400

\* the status of the error response by the place and the cause of the failure
C13_Step(i) ==
    LET r == req[i]
        q == req'[i]
    IN  (r.pc # "done" /\ q.pc = "done" /\ q.res.status # 200) =>
            IF r.pc = "findStudent" /\ ~users[r.studentId].isActive THEN q.res.status = 404
            ELSE IF r.pc = "findCourse" THEN q.res.status = 404 /\ ~ActiveCourse(r)
            ELSE q.res.status = 400

C13_ErrorStatusCodes == []C13_Codes /\ [][\A i \in Reqs : C13_Step(i)]_vars

(***************************************************************************)
(* C14.  As stated: a request whose body lacks courseCode, lacks           *)
(* imageBase64 (image endpoint), or has no faceData or faceData of another *)
(* length than the stored encodings (embedding endpoint) is rejected on    *)
(* receipt, whatever the enrollment, course, duplicate and registration    *)
(* state, so that no request with such a body is ever past the receipt;    *)
(* and it is rejected with status 400 and no record, notification or       *)
(* oracle call.                                                            *)
(***************************************************************************)
\* request i has been received and has not been answered
InFlight(i) == req[i].pc \notin {"idle", "done"}

\* the body of r lacks courseCode, or imageBase64 on the image endpoint
MissingField(r) == r.courseCode = "" \/ (r.endpoint = "image" /\ ~r.imageBase64)

\* faceData of r is missing, or of another length than the encodings stored
BadFaceData(r) ==
    /\ r.endpoint = "embedding"
    /\ \/ r.faceData = "undefined"
       \/ /\ users[r.studentId].faceEncodings # "empty"
          /\ LengthOf(r.faceData) # LengthOf(users[r.studentId].faceEncodings)

\* a request rejected for its body has had no effect
C14_NoSideEffects ==
    \A i \in Reqs :
        (Done(i) /\ req[i].res.error \in ValidationMessages) =>
            /\ req[i].res.status = 400
            /\ req[i].oracleCalls = 0
            /\ ~ReachedSave(i)
            /\ \A d \in ledger : d._id # i
            /\ \A n \in notifications : n._id # i

C14_ValidationIsImmediate ==
    /\ C14_NoSideEffects
    /\ \A i \in Reqs : InFlight(i) => (~MissingField(req[i]) /\ ~BadFaceData(req[i]))

(***************************************************************************)
(* C14, amended.  A missing courseCode, or a missing imageBase64 on the    *)
(* image endpoint, is rejected on receipt whatever the state.  faceData of *)
(* the embedding endpoint is checked only after the student, enrollment,   *)
(* course, duplicate and registration checks have passed: it is then       *)
(* rejected "invalid or missing face data" before computeCosineSimilarity, *)
(* and a request that fails an earlier check gets the reason of that       *)
(* check.  Each of these rejections has status 400 and leaves no record,   *)
(* no notification and no oracle call.                                     *)
(***************************************************************************)
C14_Stages ==
    \A i \in Reqs :
        /\ InFlight(i) => ~MissingField(req[i])
        /\ (req[i].endpoint = "embedding" /\ req[i].pc \in {"save", "notify"})
              => ~BadFaceData(req[i])

C14_Step(i) ==
    LET r == req[i]
        q == req'[i]
    IN  /\ (r.pc = "idle" /\ q.pc = "done") =>
              /\ q.res.status = 400 /\ q.res.error \in {MsgCourseRequired, MsgImageRequired}
              /\ UNCHANGED <<ledger, notifications>>
        /\ (r.pc = "findExisting" /\ q.pc # r.pc /\ BadFaceData(r)) =>
              /\ UNCHANGED <<ledger, notifications>>
              /\ q.oracleCalls = 0
              /\ IF MarkedToday(r) THEN Rejection(q, 400, MsgAlreadyMarked)
                 ELSE IF ~ReferenceStored(r) THEN Rejection(q, 400, MsgNoEncodings)
                 ELSE Rejection(q, 400, MsgInvalidFaceData)

C14_ValidationBeforeOracle ==
    [](C14_NoSideEffects /\ C14_Stages) /\ [][\A i \in Reqs : C14_Step(i)]_vars

\* a request without imageBase64, of a student not enrolled in its course, was
\* rejected for its body, and a request with faceData of another length was
\* rejected for it after the earlier checks
C14_Witness ==
    \E i \in Reqs, j \in Reqs :
        /\ RejectedWith(i, MsgImageRequired) /\ ~EnrolledIn(req[i])
        /\ RejectedWith(j, MsgInvalidFaceData) /\ EnrolledIn(req[j]) /\ ReferenceStored(req[j])

(***************************************************************************)
(* C15.  computeCosineSimilarity returns 0 and does not throw for every    *)
(* pair of arrays of which one is empty, the lengths differ, a component   *)
(* is NaN or infinite, or one array is all zeros.                          *)
(***************************************************************************)
NonFinite(x) == x.k \in {"nan", "inf"}

AllZeros(a) == \A j \in 1..Len(a) : IsZero(a[j])

Degenerate(a, b) ==
    \/ Len(a) = 0 \/ Len(b) = 0 \/ Len(a) # Len(b)
    \/ \E j \in 1..Len(a) : NonFinite(a[j])
    \/ \E j \in 1..Len(b) : NonFinite(b[j])
    \/ AllZeros(a) \/ AllZeros(b)

C15_DegenerateGivesZero ==
    (call.fn = "computeCosineSimilarity" /\ call.done /\ Degenerate(call.a, call.b)) =>
        (~call.threw /\ call.result = Num(0))

(***************************************************************************)
(* C16.  Every value that computeCosineSimilarity or faceppCompare returns *)
(* is a similarity between 0 and 1: a number that is not NaN, not negative *)
(* and not above 1 (1000 thousandths).                                     *)
(***************************************************************************)
C16_SimilarityInUnitInterval ==
    (call.done /\ ~call.threw) =>
        (call.result.k = "num" /\ call.result.v >= 0 /\ call.result.v <= 1000)

(***************************************************************************)
(* C17.  Every verification failure gets the same response, status 400     *)
(* with the one message "Face verification failed. Please try again." and  *)
(* no score: whether the oracle threw or answered with a similarity below  *)
(* 0.85, whatever that similarity is, and on both endpoints.               *)
(***************************************************************************)
\* the oracle was called for request i and threw, or answered below 0.85
VerificationFailure(i) ==
    /\ Done(i) /\ req[i].oracleCalls = 1
    /\ req[i].oracleError # "" \/ Below(req[i].similarity, 850)

C17_SameResponseForEveryFailure ==
    /\ \A i \in Reqs :
          VerificationFailure(i) =>
              /\ req[i].res = ErrorResponse(400, MsgVerificationFailed)
              /\ DOMAIN req[i].res = {"status", "success", "error", "attendanceId"}
    /\ \A i \in Reqs, j \in Reqs :
          (VerificationFailure(i) /\ VerificationFailure(j)) => req[i].res = req[j].res

\* the provider failed for one request and the cosine of another was below
\* 0.85 and not 0, and both have the same response
C17_Witness ==
    \E i \in Reqs, j \in Reqs :
        /\ VerificationFailure(i) /\ req[i].endpoint = "image" /\ req[i].oracleError # ""
        /\ VerificationFailure(j) /\ req[j].endpoint = "embedding"
        /\ Below(req[j].similarity, 850) /\ req[j].similarity # Num(0)
        /\ req[i].res = req[j].res

(***************************************************************************)
(* C18.  As stated: the Attendance collection is append-only; no step of   *)
(* the service, the deletion of a student by an admin included, removes a  *)
(* record that was committed.                                              *)
(***************************************************************************)
C18_AppendOnly == [][ledger \subseteq ledger']_vars

(***************************************************************************)
(* C18, amended.  The attendance endpoints only add records.  The one step *)
(* that removes records is Attendance.deleteMany of DELETE                 *)
(* /api/admin/students/:id: it removes every record of the student that is *)
(* deleted and no record of another student, and it adds none.             *)
(***************************************************************************)
\* request i is a deletion whose Attendance.deleteMany runs in this step
DeletesRecords(i) ==
    /\ req[i].endpoint = "deleteStudent"
    /\ req[i].pc = "deleteMany" /\ req'[i].pc # "deleteMany"

C18_Step ==
    /\ \A d \in ledger \ ledger' :
          \E i \in Reqs : DeletesRecords(i) /\ d.studentId = req[i].studentId
    /\ \A i \in Reqs :
          DeletesRecords(i) => ledger' = {d \in ledger : d.studentId # req[i].studentId}
    /\ (\A i \in Reqs : ~DeletesRecords(i)) => ledger \subseteq ledger'

C18_OnlyDeletionRemovesRecords == [][C18_Step]_vars

\* a submission was accepted, and the deletion of its student has removed
\* the record
C18_Witness ==
    \E i \in Reqs, j \in Reqs :
        /\ req[i].endpoint # "deleteStudent" /\ Accepted(i)
        /\ req[i].attendance \notin ledger
        /\ req[j].endpoint = "deleteStudent" /\ Done(j) /\ req[j].res = DeletedResponse
        /\ req[j].studentId = req[i].studentId

(***************************************************************************)
(* C19.  A committed record is never changed: in every step of the         *)
(* service a record that stays in the collection keeps all its fields, and *)
(* the record of a key stays the same record, in particular when a later   *)
(* submission for that key is handled.                                     *)
(***************************************************************************)
C19_Step ==
    \A d \in ledger, e \in ledger' :
        (e._id = d._id \/ SameKey(d, e)) => e = d

C19_RecordsAreImmutable == [][C19_Step]_vars

\* a record is in the collection as its request committed it, after a later
\* submission for its key was rejected
C19_Witness ==
    \E i \in Reqs, j \in Reqs :
        /\ i < j /\ Committed(i) /\ Accepted(i)
        /\ RejectedWith(j, MsgAlreadyMarked)
        /\ req[j].studentId = req[i].studentId
        /\ ToUpperCase(req[j].courseCode) = req[i].attendance.courseCode


(***************************************************************************)
(* C20                                                                     *)
(***************************************************************************)
\* the request has stored a face reference and answered with success
Registered(i, endpoint, s) ==
    /\ Done(i) /\ req[i].endpoint = endpoint /\ req[i].studentId = s
    /\ req[i].res.success

\* C20 as stated: in every reachable state a student never has both a
\* non-empty faceEncodings vector and a faceToken
C20_AtMostOneKindOfReference ==
    \A s \in DOMAIN users : ~(HasFaceEncodings(users[s]) /\ HasFaceToken(users[s]))

\* a step that changes the embedding of a student is the save of that
\* student's register request, stores the embedding of the request and leaves
\* the token alone; a step that changes the token is the save of that
\* student's register-image request or of the admin creation of the student,
\* stores the detected token and leaves the embedding alone; a student is
\* created with neither
C20_Step ==
    /\ \A s \in DOMAIN users \cap DOMAIN users' :
          /\ users'[s].faceEncodings # users[s].faceEncodings =>
                /\ \E i \in Reqs :
                      /\ req[i].endpoint = "register" /\ req[i].pc = "save"
                      /\ req[i].studentId = s /\ req'[i].pc = "done"
                      /\ users'[s].faceEncodings = req[i].faceData
                /\ users'[s].faceToken = users[s].faceToken
          /\ users'[s].faceToken # users[s].faceToken =>
                /\ \E i \in Reqs :
                      /\ \/ req[i].endpoint = "registerImage" /\ req[i].pc = "save"
                         \/ req[i].endpoint = "createStudent" /\ req[i].pc = "saveToken"
                      /\ req[i].studentId = s /\ req'[i].pc # req[i].pc
                      /\ users'[s].faceToken = req[i].faceToken
                /\ users'[s].faceEncodings = users[s].faceEncodings
    /\ \A s \in DOMAIN users' \ DOMAIN users :
          ~HasFaceEncodings(users'[s]) /\ ~HasFaceToken(users'[s])
    /\ DOMAIN users \subseteq DOMAIN users'

\* C20, amended: the two kinds of face reference are stored independently.
\* Each registration writes its own field and leaves the other as it was, so
\* a student who has registered both ways holds both; a stored embedding is
\* always a full array of finite numbers
C20_ReferencesAreIndependent ==
    /\ [][C20_Step]_vars
    /\ [](\A s \in DOMAIN users :
             /\ users[s].faceEncodings \in StoredArrays
             /\ users[s].faceToken \in FaceTokens \cup {""})

\* a student has registered an embedding and an image, both requests were
\* answered with success, and the student holds both references
C20_Witness ==
    \E s \in DOMAIN users : \E i, j \in Reqs :
        /\ Registered(i, "register", s)
        /\ Registered(j, "registerImage", s)
        /\ HasFaceEncodings(users[s]) /\ HasFaceToken(users[s])

(***************************************************************************)
(* C21                                                                     *)
(***************************************************************************)
\* the requests of the registration endpoints, whose token is that of the
\* student req.user.studentId
RegistrationEndpoints == {"register", "registerImage"}

\* the step changes the face reference of the student s
ReferenceWritten(s) ==
    /\ s \in DOMAIN users /\ s \in DOMAIN users'
    /\ \/ users'[s].faceToken # users[s].faceToken
       \/ users'[s].faceEncodings # users[s].faceEncodings

\* the step is the save of a registration request authenticated as s
OwnRegistration(i, s) ==
    /\ req[i].endpoint \in RegistrationEndpoints
    /\ req[i].studentId = s
    /\ req[i].pc = "save" /\ req'[i].pc = "done"

\* the step is the save of the token by the admin request that creates s
CreationWithImage(i, s) ==
    /\ req[i].endpoint = "createStudent"
    /\ req[i].studentId = s /\ req[i].imageBase64
    /\ req[i].pc = "saveToken"
    /\ users'[s].faceToken = req[i].faceToken
    /\ users'[s].faceEncodings = users[s].faceEncodings

\* C21 as stated: a face reference is written only by a registration
\* request authenticated as the same student
C21_OnlyOwnRegistrationWrites ==
    [][\A s \in Students : ReferenceWritten(s) => \E i \in Reqs : OwnRegistration(i, s)]_vars

\* C21, amended: a face reference is written only by a registration request
\* authenticated as the same student or by the admin request that creates
\* the student with a face image, which stores a token; no attendance
\* submission, no deletion and no request of another student writes it
C21_OwnRegistrationOrCreationWrites ==
    [][\A s \in Students :
          ReferenceWritten(s) =>
              \E i \in Reqs : OwnRegistration(i, s) \/ CreationWithImage(i, s)]_vars

\* both students exist, S1 has registered an embedding of its own and S2
\* holds the token the admin's creation request stored
C21_Witness ==
    \E i, j \in Reqs :
        /\ Done(i) /\ req[i].endpoint = "register" /\ req[i].res = RegisteredResponse
        /\ req[i].studentId \in DOMAIN users
        /\ users[req[i].studentId].faceEncodings = "ref"
        /\ Done(j) /\ req[j].endpoint = "createStudent" /\ req[j].res = CreatedResponse
        /\ req[j].studentId \in DOMAIN users /\ req[j].studentId # req[i].studentId
        /\ users[req[j].studentId].faceToken = req[j].faceToken
        /\ req[j].faceToken # ""

(***************************************************************************)
(* C22                                                                     *)
(***************************************************************************)
\* the position of a handler in its sequence of awaits
Rank(pc) ==
    CASE pc = "idle" -> 0
      [] pc = "findStudent" -> 1
      [] pc = "findCourse" -> 2
      [] pc = "findExisting" -> 3
      [] pc = "compare" -> 4
      [] pc = "save" -> 5
      [] pc = "notify" -> 6
      [] pc = "done" -> 7

\* the response of a finished submission is an acceptance that names the
\* record of the submission, or a rejection with a status and a reason
TerminalOutcome(i) ==
    \/ /\ req[i].res.success /\ req[i].res.status = 200
       /\ ReachedSave(i) /\ req[i].res.attendanceId = req[i].attendance._id
    \/ /\ ~req[i].res.success /\ req[i].res.status \in {400, 404, 500}
       /\ req[i].res.error # ""

\* a handler only moves forward, and a finished submission stays as it is
C22_Step ==
    \A i \in Reqs :
        /\ req'[i].pc # req[i].pc => Rank(req'[i].pc) > Rank(req[i].pc)
        /\ Done(i) => req'[i] = req[i]
        /\ req[i].res # Null => Done(i)

\* C22: every submission, whatever fails on its way, ends in exactly one
\* terminal outcome with one response, and no step of it is taken twice
C22_EverySubmissionEndsOnce ==
    /\ [][C22_Step]_vars
    /\ [](\A i \in Reqs : /\ req[i].oracleCalls <= 1
                          /\ Done(i) => TerminalOutcome(i))
    /\ \A i \in Reqs : (req[i].pc # "idle") ~> Done(i)

\* one submission was ended by an error of the store before it had built its
\* record, another was accepted
C22_Witness ==
    \E i, j \in Reqs :
        /\ Rejection(req[i], 500, MsgFailed) /\ ~ReachedSave(i)
        /\ Accepted(j) /\ Committed(j)

(***************************************************************************)
(* C23                                                                     *)
(***************************************************************************)
\* submission i has ended Rejected
Rejected(i) == Done(i) /\ ~req[i].res.success

\* nothing in the store comes from submission i
NoTraceOf(i) ==
    /\ \A d \in ledger : d._id # i
    /\ \A n \in notifications : n._id # i

\* the step that ends a submission in a rejection changes nothing, and no
\* step of an attendance handler changes a user or a course
C23_Step ==
    /\ \A i \in Reqs :
          (~Done(i) /\ req'[i].pc = "done" /\ ~req'[i].res.success) =>
              UNCHANGED <<users, courses, ledger, notifications>>
    /\ UNCHANGED <<users, courses>>

\* C23: a submission that ends Rejected, the loser of a commit race
\* included, leaves the records, the face references, the enrollments and
\* the notifications as they were
C23_RejectionLeavesNoTrace ==
    /\ [][C23_Step]_vars
    /\ [](\A i \in Reqs : Rejected(i) => NoTraceOf(i))

\* a submission passed verification and lost the commit race: the only
\* record of the key is the winner's
C23_Witness ==
    \E i, j \in Reqs :
        /\ LostRace(i) /\ Rejected(i) /\ AtLeast(req[i].similarity, 850)
        /\ Committed(j) /\ SameKey(req[i].attendance, req[j].attendance)
        /\ ledger = {req[j].attendance}

(***************************************************************************)
(* C24                                                                     *)
(***************************************************************************)
\* the ledger holds a record of the key of the record submission j has built
SlotTaken(j) == \E d \in ledger : SameKey(d, req[j].attendance)

\* the step refuses submission j as already marked
RefusedAsMarked(j) ==
    /\ ~Done(j) /\ req'[j].pc = "done"
    /\ req'[j].res.error \in AlreadyMarkedMessages

\* a submission is refused as already marked only when the ledger holds a
\* record of its key, and a submission that arrives at its save with a
\* verified similarity and a free slot commits its record and is accepted
C24_Step ==
    \A j \in Reqs :
        /\ (RefusedAsMarked(j) /\ req[j].pc = "findExisting") => MarkedToday(req[j])
        /\ (RefusedAsMarked(j) /\ req[j].pc = "save") => SlotTaken(j)
        /\ ( /\ req[j].pc = "save" /\ req'[j] # req[j]
             /\ AtLeast(req[j].similarity, 850) /\ ~SlotTaken(j) ) =>
              /\ req[j].attendance \in ledger'
              /\ \/ req'[j].pc = "notify"
                 \/ req'[j].pc = "done" /\ req'[j].res = SuccessResponse(j)
        /\ (req[j].pc = "notify" /\ req'[j] # req[j]) => req'[j].res = SuccessResponse(j)

\* C24: the slot of a day is taken only by a record, and no rejected
\* submission has a record: a submission rejected for another reason than
\* "already marked" does not keep a later submission of the same student,
\* course and day, with all checks passing, from being accepted
C24_RejectionKeepsSlotFree ==
    /\ [][C24_Step]_vars
    /\ [](\A d \in ledger : ~Rejected(d._id))

\* on the first day a submission was rejected for a failed verification and
\* the resubmission of the same student for the same course was accepted
C24_Witness ==
    \E i, j \in Reqs :
        /\ i < j
        /\ Rejection(req[i], 400, MsgVerificationFailed)
        /\ Accepted(j) /\ Committed(j)
        /\ req[j].studentId = req[i].studentId
        /\ ToUpperCase(req[j].courseCode) = ToUpperCase(req[i].courseCode)
        /\ req[j].attendance.date = IsoDate(now)
        /\ ledger = {req[j].attendance}

(***************************************************************************)
(* C25                                                                     *)
(***************************************************************************)
\* the course codes of the model in lower case
LowerCase(s) ==
    CASE s = "ICT651" -> "ict651"
      [] s = "ICT652" -> "ict652"
      [] OTHER -> s

\* two course codes differ at most in the case of their letters
SameCourse(a, b) == LowerCase(a) = LowerCase(b)

\* the codes written in upper case
UpperCaseCodes == {"ICT651", "ICT652"}

\* the step is one of the handler of the attendance submission i at pc
HandlerStep(i, pc) ==
    /\ req[i].endpoint \in {"image", "embedding"}
    /\ req[i].pc = pc /\ req'[i] # req[i]

\* the step rejects submission i with msg
RejectsWith(i, msg) == req'[i].pc = "done" /\ req'[i].res.error = msg

\* the enrollment check, the course lookup and the duplicate check decide by
\* the course code up to the case of its letters
C25_Step ==
    \A i \in Reqs :
        /\ (HandlerStep(i, "findStudent") /\ FindStudent(req[i].studentId) # Null) =>
              (RejectsWith(i, MsgNotEnrolled) <=>
                  ~\E c \in users[req[i].studentId].enrolledCourses :
                        SameCourse(c, req[i].courseCode))
        /\ HandlerStep(i, "findCourse") =>
              (RejectsWith(i, MsgCourseNotFound) <=>
                  ~\E c \in DOMAIN courses :
                        SameCourse(c, req[i].courseCode) /\ courses[c].isActive)
        /\ HandlerStep(i, "findExisting") =>
              (RejectsWith(i, MsgAlreadyMarked) <=>
                  \E d \in ledger : /\ d.studentId = req[i].studentId
                                    /\ SameCourse(d.courseCode, req[i].courseCode)
                                    /\ d.date = req[i].today)

\* C25: submissions whose course codes differ only in case are the same
\* course to the three checks, every record stores the code in upper case,
\* and a student has at most one record of a course and day whatever the case
C25_CourseCodesCompareInUpperCase ==
    /\ [][C25_Step]_vars
    /\ [](\A d \in ledger : /\ d.courseCode \in UpperCaseCodes
                            /\ SameCourse(d.courseCode, req[d._id].courseCode))
    /\ [](\A d, e \in ledger :
             ( /\ d.studentId = e.studentId /\ d.date = e.date
               /\ SameCourse(d.courseCode, e.courseCode) ) => d = e)

\* a student was accepted under "ict651" and then refused as already marked
\* under "ICT651"; the one record carries the code in upper case
C25_Witness ==
    \E i, j \in Reqs :
        /\ Accepted(i) /\ Committed(i) /\ req[i].courseCode = "ict651"
        /\ req[i].attendance.courseCode = "ICT651"
        /\ req[j].courseCode = "ICT651" /\ req[j].studentId = req[i].studentId
        /\ RejectedWith(j, MsgAlreadyMarked)
        /\ ledger = {req[i].attendance}

(***************************************************************************)
(* C26                                                                     *)
(***************************************************************************)
\* the rejection reason a message stands for
Reason(msg) ==
    CASE msg = MsgStudentNotFound -> "student not found"
      [] msg = MsgNotEnrolled -> "not enrolled"
      [] msg = MsgCourseNotFound -> "course not found"
      [] msg \in AlreadyMarkedMessages -> "already marked"
      [] msg \in {MsgNoFace, MsgNoEncodings} -> "not registered"
      [] msg = MsgVerificationFailed -> "verification failed"
      [] msg = MsgFailed -> "error"
      [] OTHER -> "invalid request"

\* what a step does to submission i: it goes on, or it answers
Outcome(i) ==
    IF req'[i].pc # "done" THEN <<0, "goes on">>
    ELSE IF req'[i].res.success THEN <<req'[i].res.status, "accepted">>
    ELSE <<req'[i].res.status, Reason(req'[i].res.error)>>

\* the decision machine of the specification at each of its stages, by the
\* abstract inputs alone: the same for both endpoints
DecideStudent(i) ==
    IF FindStudent(req[i].studentId) = Null THEN <<404, "student not found">>
    ELSE IF ~EnrolledIn(req[i]) THEN <<400, "not enrolled">>
    ELSE <<0, "goes on">>

DecideCourse(i) ==
    IF ~ActiveCourse(req[i]) THEN <<404, "course not found">> ELSE <<0, "goes on">>

DecideExisting(i) ==
    IF MarkedToday(req[i]) THEN <<400, "already marked">>
    ELSE IF ~ReferenceStored(req[i]) THEN <<400, "not registered">>
    ELSE <<0, "goes on">>

DecideSimilarity(i) ==
    IF req'[i].oracleError # "" \/ Below(req'[i].similarity, 850)
    THEN <<400, "verification failed">>
    ELSE <<0, "goes on">>

DecideCommit(i) ==
    IF SlotTaken(i) THEN <<400, "already marked">>
    ELSE IF req[i].attendance.isLate THEN <<0, "goes on">>
    ELSE <<200, "accepted">>

\* the oracle has been asked in this step and has answered with a number or failed
OracleAnswered(i) ==
    /\ req'[i].oracleCalls = req[i].oracleCalls + 1 \/ req[i].pc = "compare"
    /\ ~IsNaN(req'[i].similarity)

\* each step of either handler, on a well-formed capture, does what the
\* decision machine says
C26_Step ==
    \A i \in Reqs :
        /\ HandlerStep(i, "findStudent") => Outcome(i) = DecideStudent(i)
        /\ HandlerStep(i, "findCourse") => Outcome(i) = DecideCourse(i)
        /\ (HandlerStep(i, "findExisting") /\ req[i].endpoint = "image") =>
              Outcome(i) = DecideExisting(i)
        /\ (HandlerStep(i, "findExisting") /\ req[i].endpoint = "embedding") =>
              IF DecideExisting(i) # <<0, "goes on">> THEN Outcome(i) = DecideExisting(i)
              ELSE IF BadFaceData(req[i]) \/ ~OracleAnswered(i) THEN TRUE
              ELSE Outcome(i) = DecideSimilarity(i)
        /\ HandlerStep(i, "compare") => Outcome(i) = DecideSimilarity(i)
        /\ (HandlerStep(i, "save") /\ SchemaValid(req[i].attendance)) =>
              /\ Outcome(i) = DecideCommit(i)
              /\ ledger' = IF SlotTaken(i) THEN ledger ELSE ledger \cup {req[i].attendance}
        /\ HandlerStep(i, "notify") => Outcome(i) = <<200, "accepted">>

\* C26 as stated: the embedding endpoint and the image endpoint are the same
\* decision machine: on the same abstract inputs they give the same outcome,
\* reason and status code and the same effects on ledger and notifications
C26_SameDecisionMachine ==
    [][C26_Step]_vars

(***************************************************************************)
(* C27                                                                     *)
(***************************************************************************)
\* the step moves the attendance submission i from one await to another
Moves(i, from, to) ==
    /\ req[i].endpoint \in {"image", "embedding"}
    /\ req[i].pc = from /\ req'[i].pc = to

\* the step takes the attendance submission i to the await at pc
Arrives(i, pc) ==
    /\ req'[i].endpoint \in {"image", "embedding"}
    /\ req[i].pc # pc /\ req'[i].pc = pc

\* the student document the handler holds has a reference of the kind of
\* the endpoint
HeldReference(r) ==
    IF r.endpoint = "image" THEN r.student.faceToken # ""
    ELSE r.student.faceEncodings # "empty"

\* a submission arrives at an await only from the one before it, and only
\* with the check in between passed on the state the check read; a record
\* enters the ledger only at the save of the submission that built it, with
\* the similarity the oracle gave, which is at least 0.85
C27_Step ==
    /\ \A i \in Reqs :
          /\ Arrives(i, "findCourse") =>
                /\ Moves(i, "findStudent", "findCourse")
                /\ FindStudent(req[i].studentId) # Null
                /\ ToUpperCase(req[i].courseCode)
                       \in FindStudent(req[i].studentId).enrolledCourses
                /\ req'[i].student = FindStudent(req[i].studentId)
          /\ Arrives(i, "findExisting") =>
                /\ Moves(i, "findCourse", "findExisting")
                /\ ActiveCourse(req[i])
          /\ Arrives(i, "compare") =>
                /\ Moves(i, "findExisting", "compare")
                /\ HeldReference(req[i])
          /\ Arrives(i, "save") =>
                /\ \/ Moves(i, "compare", "save")
                   \/ Moves(i, "findExisting", "save") /\ req[i].endpoint = "embedding"
                /\ HeldReference(req[i])
                /\ ~Below(req'[i].similarity, 850)
                /\ req'[i].attendance.confidenceScore = req'[i].similarity
                /\ req'[i].attendance.studentId = req[i].studentId
                /\ req'[i].attendance.courseCode = ToUpperCase(req[i].courseCode)
    /\ \A d \in ledger' \ ledger :
          /\ d._id \in Reqs
          /\ Moves(d._id, "save", "notify") \/ Moves(d._id, "save", "done")
          /\ d = req[d._id].attendance
          /\ AtLeast(req[d._id].similarity, 850)

\* C27: every record was created by a submission that passed the student,
\* enrollment, course and reference checks and had a similarity of at least
\* 0.85, which the record keeps as its confidenceScore
C27_RecordsComeFromVerifiedSubmissions ==
    /\ [][C27_Step]_vars
    /\ [](\A d \in ledger : /\ AtLeast(d.confidenceScore, 850)
                            /\ d.confidenceScore = req[d._id].similarity)

\* a record of the embedding endpoint with a similarity of exactly 0.85
C27_Witness ==
    \E i \in Reqs :
        /\ req[i].endpoint = "embedding" /\ Committed(i)
        /\ req[i].attendance.confidenceScore = Num(850)

(***************************************************************************)
(* C28                                                                     *)
(***************************************************************************)
\* C28: in every record status is 'late' exactly when isLate is true,
\* exactly when lateMinutes > 15; status is 'present' exactly when isLate is
\* false and lateMinutes = 0; no record is 'absent' or 'excused'
C28_LatenessFieldsAgree ==
    \A d \in ledger :
        /\ d.status = "late" <=> d.isLate
        /\ d.isLate <=> d.lateMinutes > GRACE_MINUTES
        /\ d.status = "present" <=> (~d.isLate /\ d.lateMinutes = 0)
        /\ d.status \in {"present", "late"}

\* the ledger holds a record taken before the class started, which is
\* present, and a late one
C28_Witness ==
    \E d, e \in ledger :
        /\ d.status = "present" /\ d.timestamp < ClassStartTime(d.timestamp)
        /\ e.status = "late" /\ e.isLate /\ e.lateMinutes > GRACE_MINUTES

(***************************************************************************)
(* C29                                                                     *)
(***************************************************************************)
\* submission i has got past the middleware into its handler
InHandler(i) ==
    /\ req[i].endpoint \in {"image", "embedding"}
    /\ req[i].pc \notin {"idle", "done"} \/ ReachedSave(i)

\* C29: every record carries the studentId of the verified token of the
\* request that created it, and that token has the role 'student'; whatever
\* the body says, no request creates a record for another student
C29_RecordsBelongToTokenHolder ==
    /\ \A i \in Reqs :
          InHandler(i) => /\ req[i].user.role = "student"
                          /\ req[i].studentId = req[i].user.studentId
    /\ \A d \in ledger : /\ d._id \in Reqs
                         /\ d = req[d._id].attendance
                         /\ req[d._id].user.role = "student"
                         /\ d.studentId = req[d._id].user.studentId

\* a request with the token of S1 whose body names S2 has created a record
\* of S1, and a request with the token of an admin has been refused
C29_Witness ==
    \E i, j \in Reqs :
        /\ Committed(i) /\ req[i].user = StudentToken("S1") /\ req[i].claimed = "S2"
        /\ req[i].attendance.studentId = "S1"
        /\ req[j].user = AdminToken /\ Rejection(req[j], 403, MsgStudentRequired)
        /\ \A d \in ledger : d.studentId = "S1"

(***************************************************************************)
(* C30                                                                     *)
(***************************************************************************)
\* DELETE /admin/students/:id of request i has completed
Deleted(i) ==
    Done(i) /\ req[i].endpoint = "deleteStudent" /\ req[i].res = DeletedResponse

\* C30 as stated: once the deletion of a student has completed, no record
\* has the studentId of the student and no course lists the student,
\* whatever attendance submission of the student ran alongside
C30_DeletionLeavesNothing ==
    \A i \in Reqs :
        Deleted(i) =>
            /\ \A d \in ledger : d.studentId # req[i].studentId
            /\ \A c \in DOMAIN courses : req[i].studentId \notin courses[c].enrolledStudents

====
